---- MODULE Spec2Model ----
(***************************************************************************)
(* ReNight self-update: the persisted update record, the pre-Qt startup    *)
(* handshake (renight_entry.py), the stager's finalize step                *)
(* (renight_updater.py) and the application model's configuration saves    *)
(* (renight_model.py), as a state machine over a small file system.        *)
(*                                                                         *)
(* Paths are abstract names:                                               *)
(*   "inst"  the installed launcher (canonical path)                       *)
(*   "lnk"   a symlink to "inst" (another argv form of the same binary)    *)
(*   "upd"   <updates>/<file name of the URL>, a bare (non-archive) payload*)
(*   "arc"   <updates>/<file name of the URL>, an archive payload          *)
(*   "stg"   <updates>/stage-<ver>-<ts>/ReNight, the extracted binary      *)
(*   "updir" the updates directory, "stgdir" the stage directory           *)
(*   "."     os.path.normpath("") and "cwd" its canonical form             *)
(* A configuration key that is absent and a key holding "" are the same    *)
(* value here: every reader uses cfg.get(key, "") (and "or ''").  A file   *)
(* that is missing or unparsable reads as the empty record.                *)
(***************************************************************************)
EXTENDS Integers, FiniteSets, Sequences, Bags, TLC

\* fs       content of each file          dirs    existing directories
\* cfg      the configuration file        procs   the live processes (a bag)
\* budget   environment events left       faulted an operation failed or a
\* edited   the file was edited by hand           process was killed
\* rewrote  the file of a running executable was opened for writing
\* missing  no configuration file exists at the per-user path
\* legacy   a configuration file of an earlier release lies next to the
\*          installed launcher
\* call     the arguments and the result of a function applied to them
\* dl       the download of one stager and its idle timer
\* client   the UpdateClient of one running instance, with the requests made
\*          of it and the results delivered to their callbacks
VARIABLES fs, dirs, cfg, procs, leftover, budget, faulted, edited, rewrote,
          missing, legacy, client, call, dl

vars == <<fs, dirs, cfg, procs, leftover, budget, faulted, edited, rewrote,
          missing, legacy, client, call, dl>>

\* At most this many application processes are alive at once.
MaxProcs == 2

\* Environment events in one behaviour: launches by the user, staging
\* sessions, saves of the application model, injected failures, kills and
\* edits of the configuration file.
MaxEnv == 4

Files == {"inst", "upd", "arc", "stg"}

\* File contents: no file, an incomplete (empty or partially written) file, the
\* original binary, the new binary, a complete archive.
Contents == {"absent", "partial", "old", "new", "zip"}

Executable(c) == c \in {"old", "new"}

NewVersion == "1.1"

\* os.path.dirname of a file, transitively ("inst" lives in a directory that
\* nothing here creates or removes).
Ancestors(f) ==
    CASE f = "upd" -> {"updir"}
      [] f = "arc" -> {"updir"}
      [] f = "stg" -> {"updir", "stgdir"}
      [] OTHER -> {}

ParentExists(f, ds) == Ancestors(f) \subseteq ds

\* The files below a directory, and the directories removed with it.
Below(d) ==
    CASE d = "updir" -> {"upd", "arc", "stg"}
      [] d = "stgdir" -> {"stg"}
      [] OTHER -> {}

SubDirs(d) ==
    CASE d = "updir" -> {"updir", "stgdir"}
      [] d = "stgdir" -> {"stgdir"}
      [] OTHER -> {}

\* os.path.realpath(os.path.abspath(path))
_canonical(path) ==
    CASE path = "lnk" -> "inst"
      [] path = "." -> "cwd"
      [] OTHER -> path

\* os.path.normpath: "" becomes ".", the absolute paths here are already normal.
normpath(path) == IF path = "" THEN "." ELSE path

\* os.path.isfile(path)
isfile(path) == path \in Files /\ fs[path] # "absent"

\* os.path.isdir(path), for the directories below the data directory
isdir(path) == path \in {"updir", "stgdir"} /\ path \in dirs

EmptyCfg ==
    [ update_state |-> "", update_version |-> "", update_old_exe |-> "",
      update_staged_exe |-> "", update_stage_dir |-> "", update_archive |-> "",
      update_cleanup_exe |-> "", snoozed_version |-> "",
      last_update_check |-> 0 ]

UpdateKeys ==
    {"update_state", "update_version", "update_old_exe", "update_staged_exe",
     "update_stage_dir", "update_archive", "update_cleanup_exe"}

\* load_config_dict: the record of the file, {} on any error.
load_config_dict(file, ok) == IF ok THEN file ELSE EmptyCfg

\* save_config_dict, and the write at the end of _save_config: the record is
\* written ("ok"), or the open fails and the file is unchanged, or the write
\* stops after the file was truncated (the file then reads as {}).
SaveOutcomes == {"ok", "unchanged", "truncated"}

save_config_dict(c, outcome) ==
    CASE outcome = "ok" -> c
      [] outcome = "unchanged" -> cfg
      [] OTHER -> EmptyCfg

\* A cleanup that resets the state and keeps the other update keys.
MutPopOnlyState(c) == [c EXCEPT !.update_state = ""]

\* The seven update keys popped (lines 139-148 and 185-194 of the handshake).
PopUpdateKeys(c) ==
    [c EXCEPT !.update_state = "", !.update_version = "", !.update_old_exe = "",
              !.update_staged_exe = "", !.update_stage_dir = "",
              !.update_archive = "", !.update_cleanup_exe = ""]

\* A handshake that acts on a pending record whoever runs it.
MutBranchNoActorCheck(c, this_exe) ==
    IF c.update_state = "staged"
    THEN (IF c.update_staged_exe = "" \/ c.update_old_exe = "" THEN "st_clear" ELSE "st_mkdirs")
    ELSE IF c.update_state = "copied"
    THEN (IF c.update_old_exe = "" THEN "cp_clear" ELSE "cp_rm_exe")
    ELSE "ui_init"

\* A handshake that starts the cleanup of a COPIED record whoever runs it.
MutBranchNoCleanupCheck(c, this_exe) ==
    IF c.update_state = "copied" /\ c.update_old_exe # "" THEN "cp_rm_exe"
    ELSE IF c.update_state = "staged" /\ c.update_staged_exe # "" /\ c.update_old_exe # ""
         THEN (IF this_exe # _canonical(c.update_staged_exe) THEN "ui_init" ELSE "st_mkdirs")
    ELSE IF c.update_state = "staged" THEN "st_clear"
    ELSE IF c.update_state = "copied" THEN "cp_clear"
    ELSE "ui_init"

\* A handshake that holds a lock: it takes no action while another process
\* is between its read of the record and its transition.
MutBranchExclusive(c, this_exe) ==
    IF \E q \in BagToSet(procs) : q.pc \notin {"hs_load", "ui_init", "ui"} THEN "ui_init"
    ELSE IF c.update_state = "staged"
    THEN (IF c.update_staged_exe = "" \/ c.update_old_exe = "" THEN "st_clear"
          ELSE IF this_exe # _canonical(c.update_staged_exe) THEN "ui_init" ELSE "st_mkdirs")
    ELSE IF c.update_state = "copied"
    THEN (IF c.update_old_exe = "" THEN "cp_clear"
          ELSE IF this_exe # _canonical(c.update_old_exe) THEN "ui_init" ELSE "cp_rm_exe")
    ELSE "ui_init"

\* A handshake whose COPIED branch compares the process with staged_exe.
MutBranchCopiedChecksStaged(c, this_exe) ==
    IF c.update_state = "staged"
    THEN (IF c.update_staged_exe = "" \/ c.update_old_exe = "" THEN "st_clear"
          ELSE IF this_exe # _canonical(c.update_staged_exe) THEN "ui_init" ELSE "st_mkdirs")
    ELSE IF c.update_state = "copied"
    THEN (IF c.update_old_exe = "" THEN "cp_clear"
          ELSE IF this_exe # _canonical(c.update_staged_exe) THEN "ui_init" ELSE "cp_rm_exe")
    ELSE "ui_init"

\* A handshake that does not look for missing paths before it acts.
MutBranchNoMissingCheck(c, this_exe) ==
    IF c.update_state = "staged"
    THEN (IF this_exe # _canonical(c.update_staged_exe) THEN "ui_init" ELSE "st_mkdirs")
    ELSE IF c.update_state = "copied"
    THEN (IF this_exe # _canonical(c.update_old_exe) THEN "ui_init" ELSE "cp_rm_exe")
    ELSE "ui_init"

\* Where the startup handshake goes after reading the record c, in a process
\* whose canonical path is this_exe (lines 73-102 and 133-158).
HandshakeBranch(c, this_exe) ==
    LET state == c.update_state
        staged_exe == IF c.update_staged_exe # "" THEN _canonical(c.update_staged_exe) ELSE ""
        old_exe == IF c.update_old_exe # "" THEN _canonical(c.update_old_exe) ELSE ""
    IN  IF state = "" THEN "ui_init"
        ELSE IF state = "staged"
             THEN IF staged_exe = "" \/ old_exe = "" THEN "st_clear"
                  ELSE IF this_exe # staged_exe THEN "ui_init"
                  ELSE "st_mkdirs"
        ELSE IF state = "copied"
             THEN IF old_exe = "" THEN "cp_clear"
                  ELSE IF this_exe # old_exe THEN "ui_init"
                  ELSE "cp_rm_exe"
        ELSE "ui_init"

\* ReNightModel.__init__: the defaults of the in-memory fields.
EmptyMem == EmptyCfg

\* ReNightModel._load_config: the fields read from the record c.  (When the
\* file is missing the defaults stay un-normalised; _save_config normalises
\* them the same way, so the written record does not differ.)
_load_config(c) ==
    [ update_state |-> c.update_state, update_version |-> c.update_version,
      update_old_exe |-> normpath(c.update_old_exe),
      update_staged_exe |-> normpath(c.update_staged_exe),
      update_stage_dir |-> normpath(c.update_stage_dir),
      update_archive |-> normpath(c.update_archive),
      update_cleanup_exe |-> normpath(c.update_cleanup_exe),
      snoozed_version |-> c.snoozed_version,
      last_update_check |-> c.last_update_check ]

\* ReNightModel._save_config: the record built from the in-memory fields m.
_save_config(m) ==
    [ update_state |-> m.update_state, update_version |-> m.update_version,
      update_old_exe |-> normpath(m.update_old_exe),
      update_staged_exe |-> normpath(m.update_staged_exe),
      update_stage_dir |-> normpath(m.update_stage_dir),
      update_archive |-> normpath(m.update_archive),
      update_cleanup_exe |-> normpath(m.update_cleanup_exe),
      snoozed_version |-> m.snoozed_version,
      last_update_check |-> m.last_update_check ]

\* ---------------------------------------------------------------------
\* Processes.  A process is a record: argv0 (the path it was started as), pc
\* (its position in main), lcfg (the cfg dict of the handshake), tmp (the
\* content of the temporary file of _atomic_replace), mem (the fields of its
\* ReNightModel), st and kind (its _UpdateStager session).

NewProc(a) ==
    [ argv0 |-> a, pc |-> "hs_load", lcfg |-> EmptyCfg, tmp |-> "absent",
      mem |-> EmptyMem, st |-> "idle", kind |-> "" ]

Live == BagToSet(procs)

One(r) == SetToBag({r})

\* Process r takes a step and becomes r2; process r ends; a process starts.
Step(r, r2) == procs' = (procs (-) One(r)) (+) One(r2)
Exit(r) == procs' = procs (-) One(r)
HasFree == BagCardinality(procs) < MaxProcs

\* _this_exe() (the Linux branch: the canonical argv[0]).
_this_exe(r) == _canonical(r.argv0)

\* staged_exe and old_exe of the handshake of process r (lines 80-81).
StagedExe(r) == _canonical(r.lcfg.update_staged_exe)
OldExe(r) == _canonical(r.lcfg.update_old_exe)

\* The outcomes of an operation that succeeds only when can holds: it may
\* also fail for a reason outside the model, which spends the budget.
Outcomes(can) == {ok \in BOOLEAN : (ok => can) /\ (~ok => (~can \/ budget > 0))}

Charge(ok, can) ==
    /\ budget' = IF ~ok /\ can THEN budget - 1 ELSE budget
    /\ faulted' = (faulted \/ ~ok)

SaveChoices == {o \in SaveOutcomes : o # "ok" => budget > 0}

ChargeSave(o) ==
    /\ budget' = IF o # "ok" THEN budget - 1 ELSE budget
    /\ faulted' = (faulted \/ o # "ok")

\* A write creates the configuration file unless its open fails.
SaveMissing(o) == missing' = (missing /\ o = "unchanged")

\* ---------------------------------------------------------------------
\* UpdateClient (renight_updater.py)

\* At most this many descriptor requests are made of one client.
MaxReq == 3

\* At most this many staging sessions of one instance are counted.
MaxSessions == 2

ReqIds == 1..MaxReq

\* result_callback = None
NoCallback == 0

\* get_os_tag(): "" on a platform that is none of windows, linux, macos.
OsTags == {"linux", ""}

\* UpdateClient.__init__ (no request in flight, no stored callback), the
\* manager without a reply, and the main window's single-shot timer of the
\* silent check armed.  nreq numbers the requests; a request's callback is
\* named by the request's number, withcb are the requests made with one and
\* got[i] the results delivered to the callback of request i.  sessions
\* counts the _UpdateStager objects of the instance whose download,
\* extraction or finalize has not ended.
NewClient(tag) ==
    [os_tag |-> tag,
     in_flight |-> FALSE,
     ignore_skip_for_this_request |-> FALSE,
     result_callback_for_this_request |-> NoCallback,
     net |-> 0,
     pc |-> "idle",
     result |-> "",
     timer |-> TRUE,
     nreq |-> 0,
     withcb |-> {},
     got |-> [i \in ReqIds |-> <<>>],
     sessions |-> 0]

\* Before any instance is started.
Installed ==
    /\ fs = [f \in Files |-> IF f = "inst" THEN "old" ELSE "absent"]
    /\ dirs = {}
    /\ cfg = EmptyCfg
    /\ procs = EmptyBag
    /\ leftover = FALSE
    /\ budget = MaxEnv
    /\ faulted = FALSE
    /\ edited = FALSE
    /\ rewrote = FALSE
    /\ missing = TRUE
    /\ legacy \in BOOLEAN

\* Ticks of the idle window (15000 ms, line 488).
IdleWindow == 4

\* At most this many chunks are counted.
MaxChunks == 2

\* _UpdateStager.__init__: no reply, no file, the timer not running (-1).
\* reply is the transfer of the manager ("none", "running", "finished",
\* "failed", "aborted"), connected the handlers of lines 481-483, idle the
\* ticks since the last chunk arrived (since the request, before the first),
\* stalled a transfer that will receive no byte and not finish by itself,
\* size the chunks written to the file, shown the outcome shown to the user.
NewStager ==
    [reply |-> "none", connected |-> FALSE, out_f |-> FALSE,
     idle_timer |-> -1, idle |-> 0, stalled |-> FALSE, size |-> 0,
     shown |-> ""]

\* No function has been applied yet to the arguments in.
Args(in) == [fn |-> "", in |-> in, out |-> <<>>]

Init ==
    /\ Installed
    /\ client = NewClient("linux")
    /\ call = Args(<<>>)
    /\ dl = NewStager

\* The user starts the binary at path a (any argv form of an existing binary).
UserArgv == {"inst", "lnk", "upd", "stg"}

Launch(a) ==
    /\ HasFree /\ budget > 0
    /\ Executable(fs[_canonical(a)])
    /\ procs' = procs (+) One(NewProc(a))
    /\ budget' = budget - 1
    /\ UNCHANGED <<fs, dirs, cfg, leftover, faulted, edited, rewrote, missing, legacy, client, call, dl>>

\* Pcs and stager states at which the process is writing the configuration.
SavePcs == {"st_clear", "st_fail", "st_save_copied", "cp_clear", "cp_save"}

\* The process is terminated from outside at any point.  Its temporary file,
\* if any, stays behind; a write of the configuration in progress may leave a
\* truncated file.
Kill(r) ==
    /\ budget > 0
    /\ \E trunc \in BOOLEAN :
         /\ trunc => (r.pc \in SavePcs \/ r.st = "fin_save")
         /\ cfg' = IF trunc THEN EmptyCfg ELSE cfg
         /\ missing' = (missing /\ ~trunc)
    /\ Exit(r)
    /\ leftover' = (leftover \/ r.tmp # "absent")
    /\ budget' = budget - 1
    /\ faulted' = TRUE
    /\ UNCHANGED <<fs, dirs, edited, rewrote, legacy, client, call, dl>>

\* The configuration file is edited or damaged outside the program: a path
\* key of a pending record is lost.
ExternalEdit(key) ==
    /\ budget > 0
    /\ cfg.update_state # ""
    /\ cfg' = IF key = "update_old_exe"
              THEN [cfg EXCEPT !.update_old_exe = ""]
              ELSE [cfg EXCEPT !.update_staged_exe = ""]
    /\ cfg' # cfg
    /\ budget' = budget - 1
    /\ edited' = TRUE
    /\ UNCHANGED <<fs, dirs, procs, leftover, faulted, rewrote, missing, legacy, client, call, dl>>

\* ---------------------------------------------------------------------
\* _handle_pending_update_startup

\* get_config_path (renight_core.py), called by every read and write of the
\* configuration: when no file exists at the per-user path and the directory
\* of the running executable holds a legacy file, the legacy file is copied
\* to the per-user path.  This is the file after that call by process r.
LegacyCfg == [EmptyCfg EXCEPT !.last_update_check = 1]

Migrates(r) == missing /\ legacy /\ _this_exe(r) = "inst"

get_config_path(r) == IF Migrates(r) THEN LegacyCfg ELSE cfg

\* Lines 72-102 and 133-158: read the record and decide.  The os.makedirs of
\* get_config_path is outside every try: when the configuration directory
\* does not exist and cannot be created, the OSError leaves
\* load_config_dict, the handshake and main, and the process ends.
HandshakeLoad(r) ==
    /\ r.pc = "hs_load"
    /\ \/ /\ \E ok \in Outcomes(TRUE) :
               LET c == load_config_dict(get_config_path(r), ok)
                   next == HandshakeBranch(c, _this_exe(r))
               IN  /\ Step(r, [r EXCEPT !.pc = next,
                                        !.lcfg = IF next = "ui_init" THEN EmptyCfg ELSE c])
                   /\ Charge(ok, TRUE)
          /\ cfg' = get_config_path(r)
          /\ missing' = (missing /\ ~Migrates(r))
       \/ /\ missing /\ budget > 0
          /\ Exit(r)
          /\ budget' = budget - 1
          /\ faulted' = TRUE
          /\ UNCHANGED <<cfg, missing>>
    /\ UNCHANGED <<fs, dirs, leftover, edited, rewrote, legacy, client, call, dl>>

\* Lines 90-94: 'staged' but paths missing; cfg["update_state"] = "" and save.
StagedClear(r) ==
    /\ r.pc = "st_clear"
    /\ \E o \in SaveChoices :
         /\ cfg' = save_config_dict([r.lcfg EXCEPT !.update_state = ""], o)
         /\ ChargeSave(o)
         /\ SaveMissing(o)
    /\ Step(r, [r EXCEPT !.pc = "ui_init", !.lcfg = EmptyCfg])
    /\ UNCHANGED <<fs, dirs, leftover, edited, rewrote, legacy, client, call, dl>>

\* Line 106: os.makedirs(os.path.dirname(old_exe) or ".", exist_ok=True)
StagedMakedirs(r) ==
    /\ r.pc = "st_mkdirs"
    /\ \E ok \in Outcomes(TRUE) :
         /\ dirs' = IF ok THEN dirs \cup Ancestors(OldExe(r)) ELSE dirs
         /\ Step(r, [r EXCEPT !.pc = IF ok THEN "ar_mkstemp" ELSE "st_fail"])
         /\ Charge(ok, TRUE)
    /\ UNCHANGED <<fs, cfg, leftover, edited, rewrote, missing, legacy, client, call, dl>>

\* _atomic_replace, lines 44-46: tempfile.mkstemp(prefix=".rn-upd-",
\* dir=parent) creates an empty file.  A failure here is raised before the
\* try/finally: no temporary file exists.
AtomicMkstemp(r) ==
    /\ r.pc = "ar_mkstemp"
    /\ LET can == ParentExists(OldExe(r), dirs)
       IN  \E ok \in Outcomes(can) :
             /\ Step(r, [r EXCEPT !.pc = IF ok THEN "ar_copy" ELSE "st_fail",
                                  !.tmp = IF ok THEN "partial" ELSE "absent"])
             /\ Charge(ok, can)
    /\ UNCHANGED <<fs, dirs, cfg, leftover, edited, rewrote, missing, legacy, client, call, dl>>

\* What the temporary file holds after shutil.copy2(src, tmp) returned.
CopyResult(src) == IF src \in Files THEN fs[src] ELSE "absent"

\* Line 48: shutil.copy2(src, tmp).  It fails when src or tmp is missing, or
\* part-way (tmp stays incomplete).
AtomicCopy(r) ==
    /\ r.pc = "ar_copy"
    /\ LET can == r.tmp # "absent" /\ CopyResult(StagedExe(r)) # "absent"
       IN  \E ok \in Outcomes(can) :
             /\ Step(r, [r EXCEPT !.pc = IF ok THEN "ar_chmod" ELSE "ar_unlink_err",
                                  !.tmp = IF ok THEN CopyResult(StagedExe(r)) ELSE r.tmp])
             /\ Charge(ok, can)
    /\ UNCHANGED <<fs, dirs, cfg, leftover, edited, rewrote, missing, legacy, client, call, dl>>

\* Lines 49-50: os.stat(tmp); os.chmod(tmp, st.st_mode | 0o111).
AtomicChmod(r) ==
    /\ r.pc = "ar_chmod"
    /\ LET can == r.tmp # "absent"
       IN  \E ok \in Outcomes(can) :
             /\ Step(r, [r EXCEPT !.pc = IF ok THEN "ar_replace" ELSE "ar_unlink_err"])
             /\ Charge(ok, can)
    /\ UNCHANGED <<fs, dirs, cfg, leftover, edited, rewrote, missing, legacy, client, call, dl>>

\* A replace that writes dst in place: dst is seen partially written.
MutReplaceInPlace(tmp, dst) == [fs EXCEPT ![dst] = "partial"]

\* The file system after os.replace(tmp, dst) succeeded: dst is the file
\* that was tmp.
ReplaceResult(tmp, dst) == [fs EXCEPT ![dst] = tmp]

\* Line 51: os.replace(tmp, dst), one rename.
AtomicRename(r) ==
    /\ r.pc = "ar_replace"
    /\ LET can == /\ r.tmp # "absent"
                  /\ OldExe(r) \in Files
                  /\ ParentExists(OldExe(r), dirs)
       IN  \E ok \in Outcomes(can) :
             /\ fs' = IF ok THEN ReplaceResult(r.tmp, OldExe(r)) ELSE fs
             /\ Step(r, [r EXCEPT !.pc = IF ok THEN "ar_unlink_ok" ELSE "ar_unlink_err",
                                  !.tmp = IF ok THEN "absent" ELSE r.tmp])
             /\ Charge(ok, can)
    /\ UNCHANGED <<dirs, cfg, leftover, edited, rewrote, missing, legacy, client, call, dl>>

\* C38 mutant: a replace without the finally; a temporary file that was not
\* renamed stays behind.
MutNoFinally(r) ==
    /\ r.pc \in {"ar_unlink_ok", "ar_unlink_err"}
    /\ leftover' = (leftover \/ r.tmp # "absent")
    /\ Step(r, [r EXCEPT !.pc = IF r.pc = "ar_unlink_ok" THEN "st_save_copied" ELSE "st_fail",
                         !.tmp = "absent"])
    /\ UNCHANGED <<fs, dirs, cfg, budget, faulted, edited, rewrote, missing, legacy, client, call, dl>>

\* Lines 52-56: finally: os.unlink(tmp), an OSError is ignored.  A temporary
\* file that could not be removed stays behind under its temporary name.
AtomicUnlink(r) ==
    /\ r.pc \in {"ar_unlink_ok", "ar_unlink_err"}
    /\ LET can == r.tmp # "absent"
       IN  \E ok \in Outcomes(can) :
             /\ leftover' = (leftover \/ (~ok /\ can))
             /\ budget' = IF ~ok /\ can THEN budget - 1 ELSE budget
             /\ faulted' = (faulted \/ (~ok /\ can))
    /\ Step(r, [r EXCEPT !.pc = IF r.pc = "ar_unlink_ok" THEN "st_save_copied" ELSE "st_fail",
                         !.tmp = "absent"])
    /\ UNCHANGED <<fs, dirs, cfg, edited, rewrote, missing, legacy, client, call, dl>>

\* A reset that writes the record back as it was read.
MutFailKeepsState(c) == c

\* Lines 108-112: the replace failed; cfg["update_state"] = "" and save.
FailRecord(c) == [c EXCEPT !.update_state = ""]

StagedFail(r) ==
    /\ r.pc = "st_fail"
    /\ \E o \in SaveChoices :
         /\ cfg' = save_config_dict(FailRecord(r.lcfg), o)
         /\ ChargeSave(o)
         /\ SaveMissing(o)
    /\ Step(r, [r EXCEPT !.pc = "ui_init", !.lcfg = EmptyCfg])
    /\ UNCHANGED <<fs, dirs, leftover, edited, rewrote, legacy, client, call, dl>>

\* A COPIED record that does not remember the staged binary.
MutCopiedNoCleanup(c, staged_exe) == [c EXCEPT !.update_state = "copied"]

\* Lines 114-116: the record written after a successful replace.
CopiedRecord(c, staged_exe) ==
    [c EXCEPT !.update_state = "copied", !.update_cleanup_exe = staged_exe]

StagedSaveCopied(r) ==
    /\ r.pc = "st_save_copied"
    /\ \E o \in SaveChoices :
         /\ cfg' = save_config_dict(CopiedRecord(r.lcfg, StagedExe(r)), o)
         /\ ChargeSave(o)
         /\ SaveMissing(o)
    /\ Step(r, [r EXCEPT !.pc = "st_launch"])
    /\ UNCHANGED <<fs, dirs, leftover, edited, rewrote, legacy, client, call, dl>>

\* Lines 118-131: start old_exe and sys.exit(0); when the start fails the
\* function returns and the process goes on to the UI.
StagedRelaunch(r) ==
    /\ r.pc = "st_launch"
    /\ LET can == OldExe(r) \in Files /\ Executable(fs[OldExe(r)])
       IN  \E ok \in Outcomes(can) :
             /\ Step(r, IF ok THEN NewProc(OldExe(r))
                        ELSE [r EXCEPT !.pc = "ui_init", !.lcfg = EmptyCfg])
             /\ Charge(ok, can)
    /\ UNCHANGED <<fs, dirs, cfg, leftover, edited, rewrote, missing, legacy, client, call, dl>>

\* Lines 134-150: 'copied' but update_old_exe is empty; pop the keys and save.
CopiedClear(r) ==
    /\ r.pc = "cp_clear"
    /\ \E o \in SaveChoices :
         /\ cfg' = save_config_dict(PopUpdateKeys(r.lcfg), o)
         /\ ChargeSave(o)
         /\ SaveMissing(o)
    /\ Step(r, [r EXCEPT !.pc = "ui_init", !.lcfg = EmptyCfg])
    /\ UNCHANGED <<fs, dirs, leftover, edited, rewrote, legacy, client, call, dl>>

\* A deletion of the cleanup that is due (the path exists) may fail; that
\* is logged and the cleanup goes on.  (These failures do not spend the
\* budget: they do not change what the process does next.)
DeleteOutcomes(due) == {ok \in BOOLEAN : ok => due}

\* Lines 164-169: remove cleanup_exe when it is a file.
CopiedRemoveExe(r) ==
    /\ r.pc = "cp_rm_exe"
    /\ LET cleanup_exe == r.lcfg.update_cleanup_exe
       IN  \E ok \in DeleteOutcomes(isfile(cleanup_exe)) :
             /\ fs' = IF ok THEN [fs EXCEPT ![cleanup_exe] = "absent"] ELSE fs
             /\ faulted' = (faulted \/ (~ok /\ isfile(cleanup_exe)))
    /\ Step(r, [r EXCEPT !.pc = "cp_rm_arc"])
    /\ UNCHANGED <<dirs, cfg, leftover, budget, edited, rewrote, missing, legacy, client, call, dl>>

\* Lines 171-176: remove the archive when it is a file.
CopiedRemoveArchive(r) ==
    /\ r.pc = "cp_rm_arc"
    /\ LET archive == r.lcfg.update_archive
       IN  \E ok \in DeleteOutcomes(isfile(archive)) :
             /\ fs' = IF ok THEN [fs EXCEPT ![archive] = "absent"] ELSE fs
             /\ faulted' = (faulted \/ (~ok /\ isfile(archive)))
    /\ Step(r, [r EXCEPT !.pc = "cp_rm_dir"])
    /\ UNCHANGED <<dirs, cfg, leftover, budget, edited, rewrote, missing, legacy, client, call, dl>>

\* A process whose temporary file was below a removed directory has lost it.
LoseTmp(d, q) ==
    IF q.tmp # "absent" /\ _canonical(q.lcfg.update_old_exe) \in Below(d)
    THEN [q EXCEPT !.tmp = "absent"] ELSE q

\* Lines 178-183: shutil.rmtree(stage_dir) when it is a directory: the
\* directory and everything below it go.
CopiedRemoveDir(r) ==
    /\ r.pc = "cp_rm_dir"
    /\ LET stage_dir == r.lcfg.update_stage_dir
           Lose(q) == LoseTmp(stage_dir, q)
       IN  \E ok \in DeleteOutcomes(isdir(stage_dir)) :
             /\ fs' = IF ok
                      THEN [f \in Files |-> IF f \in Below(stage_dir) THEN "absent" ELSE fs[f]]
                      ELSE fs
             /\ dirs' = IF ok THEN dirs \ SubDirs(stage_dir) ELSE dirs
             /\ procs' = IF ok
                         THEN BagOfAll(Lose, procs (-) One(r)) (+) One([r EXCEPT !.pc = "cp_save"])
                         ELSE (procs (-) One(r)) (+) One([r EXCEPT !.pc = "cp_save"])
             /\ faulted' = (faulted \/ (~ok /\ isdir(stage_dir)))
    /\ UNCHANGED <<cfg, leftover, budget, edited, rewrote, missing, legacy, client, call, dl>>

\* Lines 185-196: pop the update keys and save.
CopiedSave(r) ==
    /\ r.pc = "cp_save"
    /\ \E o \in SaveChoices :
         /\ cfg' = save_config_dict(PopUpdateKeys(r.lcfg), o)
         /\ ChargeSave(o)
         /\ SaveMissing(o)
    /\ Step(r, [r EXCEPT !.pc = "ui_init", !.lcfg = EmptyCfg])
    /\ UNCHANGED <<fs, dirs, leftover, edited, rewrote, legacy, client, call, dl>>

\* ---------------------------------------------------------------------
\* The application after the handshake: ReNightWindow / ReNightModel

\* C30 mutant: the window is constructed without waiting for the handshake.
MutUIInitEarly(r) ==
    /\ r.pc \in {"hs_load", "ui_init"}
    /\ \E ok \in Outcomes(TRUE) :
         /\ Step(r, [r EXCEPT !.pc = "ui",
                              !.mem = IF ok THEN _load_config(cfg) ELSE EmptyMem])
         /\ Charge(ok, TRUE)
    /\ UNCHANGED <<fs, dirs, cfg, leftover, edited, rewrote, missing, legacy, client, call, dl>>

\* ReNightWindow.__init__ -> ReNightModel.__init__ -> _load_config (a read
\* error leaves the defaults).
UIInit(r) ==
    /\ r.pc = "ui_init"
    /\ \E ok \in Outcomes(TRUE) :
         /\ Step(r, [r EXCEPT !.pc = "ui",
                              !.mem = IF ok THEN _load_config(cfg) ELSE EmptyMem])
         /\ Charge(ok, TRUE)
    /\ UNCHANGED <<fs, dirs, cfg, leftover, edited, rewrote, missing, legacy, client, call, dl>>

\* Stager states in which _finalize_and_launch is running on the UI thread
\* (no other event of the process is handled meanwhile).
InHandler(r) == r.st \in {"fin_save", "fin_launch"}

\* A setter of ReNightModel followed by _save_config: the in-memory fields
\* become m and are written.
ModelSave(r, m) ==
    /\ budget > 0
    /\ \E o \in SaveOutcomes :
         /\ cfg' = save_config_dict(_save_config(m), o)
         /\ faulted' = (faulted \/ o # "ok")
         /\ SaveMissing(o)
    /\ Step(r, [r EXCEPT !.mem = m])
    /\ budget' = budget - 1
    /\ UNCHANGED <<fs, dirs, leftover, edited, rewrote, legacy, client, call, dl>>

\* _set_snoozed_version(latest.version), from the optional dialog (the
\* folder and symlink setters of the model save the same way).
SetSnoozedVersion(r) ==
    /\ r.pc = "ui" /\ ~InHandler(r) /\ r.st # "msgbox"
    /\ ModelSave(r, [r.mem EXCEPT !.snoozed_version = NewVersion])

\* _record_update_check_timestamp, when a descriptor reply is processed (also
\* inside the event loop of the stager's final message box).
RecordUpdateCheck(r) ==
    /\ r.pc = "ui" /\ ~InHandler(r)
    /\ ModelSave(r, [r.mem EXCEPT !.last_update_check = 1])

\* The user closes the window: app.exec() returns and the process exits.
UIClose(r) ==
    /\ r.pc = "ui" /\ ~InHandler(r)
    /\ Exit(r)
    /\ UNCHANGED <<fs, dirs, cfg, leftover, budget, faulted, edited, rewrote, missing, legacy, client, call, dl>>

\* ---------------------------------------------------------------------
\* _UpdateStager

PayloadKinds == {"bare", "archive"}

\* start(), lines 464-465: the download destination in the updates directory.
ArchivePath(kind) == IF kind = "bare" THEN "upd" ELSE "arc"

\* The staged executable and the stage directory handed to
\* _finalize_and_launch: lines 575-576 (bare payload) and 582 (archive).
StagedPath(kind) == IF kind = "bare" THEN "upd" ELSE "stg"

StageDir(kind) == IF kind = "bare" THEN "updir" ELSE "stgdir"

\* Some live process was started from the file at path f.
Running(f) == \E q \in Live : _canonical(q.argv0) = f

\* The record c names the stage directory or the binary in it.
Mentions(c) ==
    \/ c.update_old_exe = "stg" \/ c.update_staged_exe = "stg"
    \/ c.update_cleanup_exe = "stg" \/ c.update_stage_dir = "stgdir"

\* The names "stgdir" and "stg" stand for the stage directory of one
\* session: they are free for a new session when nothing refers to an
\* earlier one any more.
StageNameFree ==
    /\ "stgdir" \notin dirs /\ ~Running("stg") /\ ~Mentions(cfg)
    /\ \A q \in Live : ~Mentions(q.lcfg) /\ ~Mentions(q.mem)

\* start(), lines 452-485: create the updates directory, open the
\* destination for writing (it is truncated) and start the download.  An
\* archive is staged only when the stage directory's name is free: the stage
\* directory of a session is a fresh, timestamped one.  Whether the file of
\* a running executable can be opened for writing depends on the system.
\* One session of a process is followed here; a further session of the same
\* instance (see SessionEnds) acts as the session of another instance
\* started from the same path.
StagerStart(r, kind) ==
    /\ r.pc = "ui" /\ r.st = "idle"
    /\ budget > 0
    /\ kind = "archive" => StageNameFree
    /\ \E ok \in BOOLEAN :
         /\ dirs' = dirs \cup {"updir"}
         /\ fs' = IF ok THEN [fs EXCEPT ![ArchivePath(kind)] = "partial"] ELSE fs
         /\ Step(r, IF ok THEN [r EXCEPT !.st = "downloading", !.kind = kind] ELSE r)
         /\ faulted' = (faulted \/ ~ok)
         /\ rewrote' = (rewrote \/ (ok /\ Running(ArchivePath(kind))))
    /\ budget' = budget - 1
    /\ UNCHANGED <<cfg, leftover, edited, missing, legacy, client, call, dl>>

\* A stager that records the staging intent when the download ends, before
\* it has looked at the outcome.
MutDownloadFinishedPersists(r) ==
    /\ r.pc = "ui" /\ r.st = "downloading"
    /\ LET path == ArchivePath(r.kind)
           can == fs[path] # "absent"
       IN  \E ok \in Outcomes(can) :
             /\ fs' = IF ok
                      THEN [fs EXCEPT ![path] = IF r.kind = "bare" THEN "new" ELSE "zip"]
                      ELSE fs
             /\ Step(r, IF ~ok THEN [r EXCEPT !.st = "idle", !.kind = ""]
                        ELSE IF r.kind = "bare" THEN [r EXCEPT !.st = "fin_save"]
                        ELSE [r EXCEPT !.st = "extracting"])
             /\ Charge(ok, can)
    /\ cfg' = [cfg EXCEPT !.update_state = "staged"]
    /\ UNCHANGED <<dirs, leftover, edited, rewrote, missing, legacy, client, call, dl>>

\* _on_download_finished, lines 514-576: a network error (or the idle
\* timeout's abort) and an empty file end the session; otherwise the file is
\* complete and the payload goes to extraction or straight to finalize.
StagerDownloadFinished(r) ==
    /\ r.pc = "ui" /\ r.st = "downloading"
    /\ LET path == ArchivePath(r.kind)
           can == fs[path] # "absent"
       IN  \E ok \in Outcomes(can) :
             /\ fs' = IF ok
                      THEN [fs EXCEPT ![path] = IF r.kind = "bare" THEN "new" ELSE "zip"]
                      ELSE fs
             /\ Step(r, IF ~ok THEN [r EXCEPT !.st = "idle", !.kind = ""]
                        ELSE IF r.kind = "bare" THEN [r EXCEPT !.st = "fin_save"]
                        ELSE [r EXCEPT !.st = "extracting"])
             /\ Charge(ok, can)
    /\ UNCHANGED <<dirs, cfg, leftover, edited, rewrote, missing, legacy, client, call, dl>>

\* _ExtractorWorker.run and _on_extracted, lines 140-170 and 578-582.
StagerExtract(r) ==
    /\ r.pc = "ui" /\ r.st = "extracting"
    /\ LET can == fs["arc"] = "zip" /\ "stgdir" \notin dirs
       IN  \E ok \in Outcomes(can) :
             /\ dirs' = IF ok THEN dirs \cup {"updir", "stgdir"} ELSE dirs
             /\ fs' = IF ok THEN [fs EXCEPT !["stg"] = "new"] ELSE fs
             /\ Step(r, IF ok THEN [r EXCEPT !.st = "fin_save"]
                        ELSE [r EXCEPT !.st = "idle", !.kind = ""])
             /\ Charge(ok, can)
    /\ UNCHANGED <<cfg, leftover, edited, rewrote, missing, legacy, client, call, dl>>

\* C37 mutant: the stager writes its record over an empty one.
MutStagedOverEmpty(c, a0, kind) ==
    [EmptyCfg EXCEPT !.update_state = "staged", !.update_version = NewVersion,
                     !.update_old_exe = _canonical(a0),
                     !.update_staged_exe = StagedPath(kind),
                     !.update_stage_dir = StageDir(kind),
                     !.update_archive = ArchivePath(kind)]

\* _finalize_and_launch, lines 584-598: the record written by the stager of
\* a process started as a0, over the loaded record c.
StagedRecord(c, a0, kind) ==
    [c EXCEPT !.update_state = "staged", !.update_version = NewVersion,
              !.update_old_exe = _canonical(a0),
              !.update_staged_exe = StagedPath(kind),
              !.update_stage_dir = StageDir(kind),
              !.update_archive = ArchivePath(kind),
              !.update_cleanup_exe = ""]

StagerFinalizeSave(r) ==
    /\ r.pc = "ui" /\ r.st = "fin_save"
    /\ \E ok \in Outcomes(TRUE), o \in SaveOutcomes :
         /\ (~ok /\ o # "ok") => budget > 1
         /\ o # "ok" => budget > 0
         /\ cfg' = save_config_dict(StagedRecord(load_config_dict(cfg, ok), r.argv0, r.kind), o)
         /\ budget' = budget - (IF ok THEN 0 ELSE 1) - (IF o = "ok" THEN 0 ELSE 1)
         /\ faulted' = (faulted \/ ~ok \/ o # "ok")
         /\ SaveMissing(o)
    /\ Step(r, [r EXCEPT !.st = "fin_launch"])
    /\ UNCHANGED <<fs, dirs, leftover, edited, rewrote, legacy, client, call, dl>>

\* Lines 600-615: start the staged binary; when that fails, warn and return
\* (the process goes on running).
StagerLaunch(r) ==
    /\ r.pc = "ui" /\ r.st = "fin_launch"
    /\ LET can == HasFree /\ Executable(fs[StagedPath(r.kind)])
       IN  \E ok \in Outcomes(can) :
             /\ procs' = IF ok
                         THEN (procs (-) One(r)) (+) One([r EXCEPT !.st = "msgbox"])
                                                 (+) One(NewProc(StagedPath(r.kind)))
                         ELSE (procs (-) One(r)) (+) One([r EXCEPT !.st = "idle", !.kind = ""])
             /\ Charge(ok, can)
    /\ UNCHANGED <<fs, dirs, cfg, leftover, edited, rewrote, missing, legacy, client, call, dl>>

\* Lines 617-627: the "Update started" box is closed and the application quits.
StagerQuit(r) ==
    /\ r.pc = "ui" /\ r.st = "msgbox"
    /\ Exit(r)
    /\ UNCHANGED <<fs, dirs, cfg, leftover, budget, faulted, edited, rewrote, missing, legacy, client, call, dl>>

\* ---------------------------------------------------------------------

Next ==
    \/ \E a \in UserArgv : Launch(a)
    \/ \E r \in Live : Kill(r)
    \/ \E k \in {"update_old_exe", "update_staged_exe"} : ExternalEdit(k)
    \/ \E r \in Live : HandshakeLoad(r)
    \/ \E r \in Live : StagedClear(r)
    \/ \E r \in Live : StagedMakedirs(r)
    \/ \E r \in Live : AtomicMkstemp(r)
    \/ \E r \in Live : AtomicCopy(r)
    \/ \E r \in Live : AtomicChmod(r)
    \/ \E r \in Live : AtomicRename(r)
    \/ \E r \in Live : AtomicUnlink(r)
    \/ \E r \in Live : StagedFail(r)
    \/ \E r \in Live : StagedSaveCopied(r)
    \/ \E r \in Live : StagedRelaunch(r)
    \/ \E r \in Live : CopiedClear(r)
    \/ \E r \in Live : CopiedRemoveExe(r)
    \/ \E r \in Live : CopiedRemoveArchive(r)
    \/ \E r \in Live : CopiedRemoveDir(r)
    \/ \E r \in Live : CopiedSave(r)
    \/ \E r \in Live : UIInit(r)
    \/ \E r \in Live : SetSnoozedVersion(r)
    \/ \E r \in Live : RecordUpdateCheck(r)
    \/ \E r \in Live : UIClose(r)
    \/ \E r \in Live, k \in PayloadKinds : StagerStart(r, k)
    \/ \E r \in Live : StagerDownloadFinished(r)
    \/ \E r \in Live : StagerExtract(r)
    \/ \E r \in Live : StagerFinalizeSave(r)
    \/ \E r \in Live : StagerLaunch(r)
    \/ \E r \in Live : StagerQuit(r)

Spec == Init /\ [][Next]_vars

\* ---------------------------------------------------------------------
\* UpdateClient: descriptor requests, their replies and their results

mvars == <<fs, dirs, cfg, procs, leftover, budget, faulted, edited, rewrote,
           missing, legacy>>

Results == {"error", "deprecated", "no_update", "update_available"}

\* What a reply amounts to for _finalize_descriptor_result:
\*   "error"      network error, the 8 s timer's abort, or no entry for
\*                this platform in the descriptor
\*   "deprecated" the running version is flagged deprecated
\*   "older"      the latest version is not newer than the running one
\*   "skipped"    a newer version, the one the user chose to skip
\*   "newer"      a newer version, not the skipped one
Descriptors == {"error", "deprecated", "older", "skipped", "newer"}

\* _notify_result: the callback, if there is one, gets the result.
_notify_result(c, result, cb) ==
    IF cb = NoCallback
    THEN c.got
    ELSE [c.got EXCEPT ![cb] = Append(@, result)]

\* C20 mutant: the request is accepted although one is in flight.
MutNeverInFlight(c) == FALSE

\* _request_descriptor, line 228: a request is in flight.
InFlight(c) == c.in_flight

\* _request_descriptor with its arguments, lines 224-237: without an os tag
\* and with a request in flight, "error" to the callback of this call and
\* nothing else; otherwise the guard is taken, the arguments are stored and
\* the manager issues the network request.
_request_descriptor(c, ignore_skip, result_callback) ==
    IF c.os_tag = ""
    THEN [c EXCEPT !.got = _notify_result(c, "error", result_callback)]
    ELSE IF InFlight(c)
    THEN [c EXCEPT !.got = _notify_result(c, "error", result_callback)]
    ELSE [c EXCEPT !.in_flight = TRUE,
                   !.ignore_skip_for_this_request = ignore_skip,
                   !.result_callback_for_this_request = result_callback,
                   !.net = @ + 1]

\* check_now, called from the event loop (also the nested one of an open
\* decision dialog): request number nreq + 1 is made.
check_now(ignore_skip, hascb) ==
    /\ client.nreq < MaxReq
    /\ LET id == client.nreq + 1
           cb == IF hascb THEN id ELSE NoCallback
           c  == [client EXCEPT !.nreq = id,
                                !.withcb = IF hascb THEN @ \cup {id} ELSE @]
       IN  client' = _request_descriptor(c, ignore_skip, cb)

\* MainWindow._run_silent_update_check, fired once by the single-shot timer:
\* nothing if the last check is recent, else a request that honours the
\* skipped version and has no callback.
RunSilentUpdateCheck ==
    /\ client.timer
    /\ \E recent \in BOOLEAN :
          IF recent
          THEN client' = [client EXCEPT !.timer = FALSE]
          ELSE /\ client.nreq < MaxReq
               /\ LET c == [client EXCEPT !.timer = FALSE,
                                          !.nreq = @ + 1]
                  IN  client' = _request_descriptor(c, FALSE, NoCallback)
    /\ UNCHANGED <<mvars, call, dl>>

\* MainWindow.on_help_check_updates: the manual check ignores the skipped
\* version and passes a callback.
HelpCheckUpdates ==
    /\ check_now(TRUE, TRUE)
    /\ UNCHANGED <<mvars, call, dl>>

\* _finalize_descriptor_result, lines 290-315: the result of a reply.
ResultOf(c, d) ==
    CASE d = "error" -> "error"
      [] d = "deprecated" -> "deprecated"
      [] d = "older" -> "no_update"
      [] d = "skipped" -> IF c.ignore_skip_for_this_request
                          THEN "update_available" ELSE "no_update"
      [] d = "newer" -> "update_available"

\* Lines 296 and 314: these results are notified after a modal dialog.
ShowsDialog(res) == res \in {"deprecated", "update_available"}

\* C33 mutant: the guard is released only on the paths that return.
MutReleaseForgotten(c) == [c EXCEPT !.pc = "idle", !.result = ""]

\* The finally of _on_descriptor_reply, lines 275-277: the guard is
\* released however the try block was left.
Release(c) == [c EXCEPT !.in_flight = FALSE, !.pc = "idle", !.result = ""]

\* _notify_request_result and then the finally of _on_descriptor_reply: the
\* stored callback is taken and cleared, it gets the result, and the guard
\* is released.
Finish(c, res) ==
    Release([c EXCEPT !.got = _notify_result(c, res, c.result_callback_for_this_request),
                      !.result_callback_for_this_request = NoCallback])

\* _on_descriptor_reply: the manager's finished signal for the outstanding
\* reply, up to the notification or to the exec() of the dialog.
OnDescriptorReply(d) ==
    /\ client.pc = "idle" /\ client.net > 0
    /\ LET c   == [client EXCEPT !.net = @ - 1]
           res == ResultOf(c, d)
       IN  client' = IF ShowsDialog(res)
                     THEN [c EXCEPT !.pc = "dialog", !.result = res]
                     ELSE Finish(c, res)
    /\ UNCHANGED <<mvars, call, dl>>

\* The dialog is closed: the rest of _show_optional_dialog or
\* _show_mandatory_dialog, of _finalize_descriptor_result and the finally of
\* _on_descriptor_reply.  "Update now" calls _begin_update, which starts a
\* new _UpdateStager when the entry has a URL and the build is frozen
\* (lines 409-423; nothing there looks for a session already running).  An
\* exception raised on the way (one that start() does not catch, e.g. the
\* ValueError of open() for a file name with a NUL character) leaves
\* _finalize_descriptor_result before the notification: only the finally
\* runs, and the stored callback stays stored.
DialogClosed(button, stages, raised) ==
    /\ client.pc = "dialog"
    /\ stages => (button = "update" /\ ~raised /\ client.sessions < MaxSessions)
    /\ raised => button = "update"
    /\ client' = IF raised THEN Release(client)
                 ELSE Finish([client EXCEPT !.sessions = IF stages THEN @ + 1 ELSE @],
                             client.result)
    /\ UNCHANGED <<mvars, call, dl>>

\* A staging session ends without leaving the application: the download
\* failed or was empty (lines 531-553), the extraction failed (lines
\* 578-581) or the staged binary could not be started (lines 609-615).
SessionEnds ==
    /\ client.sessions > 0
    /\ client' = [client EXCEPT !.sessions = @ - 1]
    /\ UNCHANGED <<mvars, call, dl>>

InitClient ==
    /\ Installed
    /\ \E tag \in OsTags : client = NewClient(tag)
    /\ call = Args(<<>>)
    /\ dl = NewStager

NextClient ==
    \/ RunSilentUpdateCheck
    \/ HelpCheckUpdates
    \/ \E d \in Descriptors : OnDescriptorReply(d)
    \/ \E button \in {"update", "other"}, stages, raised \in BOOLEAN :
          DialogClosed(button, stages, raised)
    \/ SessionEnds

SpecClient == InitClient /\ [][NextClient]_vars

\* ---------------------------------------------------------------------
\* Version strings (renight_core.py)
\*
\* A string is a TLA+ string; its characters are ASCII.  For ASCII,
\* str.isdigit() is true of "0".."9" only and int() of a non-empty string of
\* such digits does not raise, so the except branch of _version_to_tuple
\* (lines 228-231) is not taken by any string here.

Char(s, i) == SubSeq(s, i, i)

Digits == {"0", "1", "2", "3", "4", "5", "6", "7", "8", "9"}

\* The characters of which str.isspace() is true.
Spaces == {" ", "\t"}

\* str.lower(), one character.
LowerChar(ch) ==
    CASE ch = "A" -> "a" [] ch = "B" -> "b" [] ch = "D" -> "d"
      [] ch = "E" -> "e" [] ch = "I" -> "i" [] ch = "L" -> "l"
      [] ch = "N" -> "n" [] ch = "P" -> "p" [] ch = "R" -> "r"
      [] ch = "T" -> "t" [] ch = "U" -> "u" [] ch = "W" -> "w"
      [] ch = "X" -> "x"
      [] OTHER -> ch

RECURSIVE Lower(_)
Lower(s) ==
    IF s = "" THEN "" ELSE LowerChar(Char(s, 1)) \o Lower(Tail(s))

\* str.strip()
RECURSIVE Strip(_)
Strip(s) ==
    IF s # "" /\ Char(s, 1) \in Spaces THEN Strip(Tail(s))
    ELSE IF s # "" /\ Char(s, Len(s)) \in Spaces
    THEN Strip(SubSeq(s, 1, Len(s) - 1))
    ELSE s

\* sub in s
RECURSIVE Contains(_, _)
Contains(s, sub) ==
    IF Len(s) < Len(sub) THEN FALSE
    ELSE \/ SubSeq(s, 1, Len(sub)) = sub
         \/ Contains(Tail(s), sub)

\* s.endswith(p)
EndsWith(s, p) ==
    Len(s) >= Len(p) /\ SubSeq(s, Len(s) - Len(p) + 1, Len(s)) = p

\* The position of the first sep in s, 0 if there is none.
RECURSIVE Find(_, _, _)
Find(s, sep, i) ==
    IF i > Len(s) THEN 0
    ELSE IF Char(s, i) = sep THEN i
    ELSE Find(s, sep, i + 1)

\* s.split(sep) for a one-character separator: a sequence of strings, one
\* more than there are separators.
RECURSIVE Split(_, _)
Split(s, sep) ==
    LET i == Find(s, sep, 1)
    IN  IF i = 0 THEN <<s>>
        ELSE <<SubSeq(s, 1, i - 1)>> \o Split(SubSeq(s, i + 1, Len(s)), sep)

DigitValue(ch) ==
    CASE ch = "0" -> 0 [] ch = "1" -> 1 [] ch = "2" -> 2 [] ch = "3" -> 3
      [] ch = "4" -> 4 [] ch = "5" -> 5 [] ch = "6" -> 6 [] ch = "7" -> 7
      [] ch = "8" -> 8 [] ch = "9" -> 9

\* int(p) of a non-empty string of digits (leading zeros do not count).
RECURSIVE int(_)
int(p) ==
    IF p = "" THEN 0
    ELSE 10 * int(SubSeq(p, 1, Len(p) - 1)) + DigitValue(Char(p, Len(p)))

\* _version_to_tuple, lines 214-216: the end of the leading run of digits
\* and dots, from position end.
RECURSIVE PrefixEnd(_, _)
PrefixEnd(s, end) ==
    IF end < Len(s) /\ (Char(s, end + 1) \in Digits \/ Char(s, end + 1) = ".")
    THEN PrefixEnd(s, end + 1)
    ELSE end

_version_to_tuple(version) ==
    LET stripped == Strip(version)
        s == SubSeq(stripped, 1, PrefixEnd(stripped, 0))
        parts == Split(s, ".")
    IN  IF s = "" THEN <<0>>
        ELSE [i \in 1..Len(parts) |->
                 IF parts[i] = "" THEN 0 ELSE int(parts[i])]

\* C25 mutant: only the suffix "b" makes a beta.
MutBetaSuffixOnly(version) == EndsWith(Lower(Strip(version)), "b")

_is_beta_version(version) ==
    LET s == Lower(Strip(version))
    IN  Contains(s, "beta") \/ EndsWith(s, "b")

\* C24 mutant: a tuple is less if any of its components is.
MutTupleLessAny(ta, tb) == \E i \in 1..Len(ta) : ta[i] < tb[i]

\* Python's ta < tb for tuples of integers of the same length.
TupleLess(ta, tb) ==
    \E i \in 1..Len(ta) :
        /\ ta[i] < tb[i]
        /\ \A j \in 1..(i - 1) : ta[j] = tb[j]

compare_versions(a, b) ==
    LET ta0 == _version_to_tuple(a)
        tb0 == _version_to_tuple(b)
        max_len == IF Len(ta0) > Len(tb0) THEN Len(ta0) ELSE Len(tb0)
        ta == [i \in 1..max_len |-> IF i <= Len(ta0) THEN ta0[i] ELSE 0]
        tb == [i \in 1..max_len |-> IF i <= Len(tb0) THEN tb0[i] ELSE 0]
        a_beta == _is_beta_version(a)
        b_beta == _is_beta_version(b)
    IN  IF TupleLess(ta, tb) THEN -1
        ELSE IF TupleLess(tb, ta) THEN 1
        ELSE IF a_beta /\ ~b_beta THEN -1
        ELSE IF b_beta /\ ~a_beta THEN 1
        ELSE 0

\* The version strings compared: the running version ("0.1a" is VERSION,
\* renight_core.py line 6) and version fields of descriptor lines, which the
\* parser has stripped: padded, beta-suffixed and malformed ones.
Versions ==
    {"", "0", "1", "2", "10", "0.1", "0.1a", "0.02", "0.2", "0.3", "0.3-beta",
     "0.3b", "0.3B", "0.03-BETA", "0.3.0", "0.3.1", "1.0", "1.0.0", "1.",
     ".", "..1", "beta", "v1", "1.9", "1.10"}

\* compare_versions applied to the pairs of the three arguments.
CompareVersions ==
    /\ call.fn = "" /\ Len(call.in) = 3
    /\ LET a == call.in[1]
           b == call.in[2]
           c == call.in[3]
       IN  call' = [call EXCEPT
                      !.fn = "compare_versions",
                      !.out = [aa |-> compare_versions(a, a),
                               ab |-> compare_versions(a, b),
                               ba |-> compare_versions(b, a),
                               bc |-> compare_versions(b, c),
                               ac |-> compare_versions(a, c)]]
    /\ UNCHANGED <<mvars, client, dl>>

InitCompare ==
    /\ Installed
    /\ client = NewClient("linux")
    /\ \E a \in Versions, b \in Versions, c \in Versions :
          call = Args(<<a, b, c>>)
    /\ dl = NewStager

SpecCompare == InitCompare /\ [][CompareVersions]_vars

\* ---------------------------------------------------------------------
\* The update descriptor and the decision (renight_updater.py)

\* Optional[UpdateEntry]: None, or an entry [version, flags, url] with the
\* flags a sequence of strings.
None == [none |-> TRUE]

UpdateEntry(version, flags, url) ==
    [version |-> version, flags |-> flags, url |-> url]

\* [p.strip() for p in line.split("|")], line 65
RECURSIVE StripAll(_)
StripAll(ps) ==
    IF ps = <<>> THEN <<>> ELSE <<Strip(Head(ps))>> \o StripAll(Tail(ps))

\* tuple(f.strip().lower() for f in flags_str.split(",") if f.strip()),
\* line 81
RECURSIVE Flags(_)
Flags(fields) ==
    IF fields = <<>> THEN <<>>
    ELSE IF Strip(Head(fields)) = "" THEN Flags(Tail(fields))
    ELSE <<Lower(Strip(Head(fields)))>> \o Flags(Tail(fields))

\* "deprecated" in entry.flags
HasFlag(entry, flag) == \E i \in DOMAIN entry.flags : entry.flags[i] = flag

\* C28 mutant: the platform is compared as written.
MutSameOsExact(os_name, os_tag) == os_name = os_tag

\* Line 71: the line is one for this platform.
SameOs(os_name, os_tag) == Lower(os_name) = Lower(os_tag)

\* One pass of the loop body, lines 61-82: the entry of a raw line, or None
\* if the line is skipped.
LineEntry(raw_line, os_tag) ==
    LET line == Strip(raw_line)
        parts == StripAll(Split(line, "|"))
    IN  IF line = "" \/ Char(line, 1) = "#" THEN None
        ELSE IF Len(parts) < 3 THEN None
        ELSE IF ~SameOs(parts[2], os_tag) THEN None
        ELSE IF Len(parts) = 3
        THEN UpdateEntry(parts[1], <<>>, parts[3])
        ELSE UpdateEntry(parts[1], Flags(Split(parts[3], ",")), parts[4])

\* C27 mutant: an entry of an equal version replaces latest too.
MutNewerOrEqual(entry, latest) ==
    latest = None \/ compare_versions(entry.version, latest.version) >= 0

\* Line 84: the entry becomes latest.
Newer(entry, latest) ==
    latest = None \/ compare_versions(entry.version, latest.version) > 0

\* Line 87: the entry is the current one.
IsCurrent(entry, current_version) ==
    compare_versions(entry.version, current_version) = 0

\* Lines 84-88: latest and current after an entry.
Update(acc, entry, current_version) ==
    [latest  |-> IF Newer(entry, acc.latest) THEN entry ELSE acc.latest,
     current |-> IF IsCurrent(entry, current_version)
                 THEN entry ELSE acc.current]

\* The loop of lines 60-88 over the lines from position i on.
RECURSIVE ParseFrom(_, _, _, _, _)
ParseFrom(lines, i, os_tag, current_version, acc) ==
    IF i > Len(lines) THEN acc
    ELSE LET entry == LineEntry(lines[i], os_tag)
         IN  ParseFrom(lines, i + 1, os_tag, current_version,
                       IF entry = None THEN acc
                       ELSE Update(acc, entry, current_version))

\* _parse_descriptor of the lines of the text (text.splitlines()).
_parse_descriptor(lines, os_tag, current_version) ==
    ParseFrom(lines, 1, os_tag, current_version,
              [latest |-> None, current |-> None])

\* Line 294
current_is_deprecated(current) ==
    current # None /\ HasFlag(current, "deprecated")

\* C21 mutant: the skip rule comes before the deprecation.
MutSkipFirst(status, latest, current, app_version, skip_version, ignore_skip) ==
    IF status # "ok" \/ latest = None THEN "error"
    ELSE IF ~ignore_skip /\ skip_version # "" /\ skip_version = latest.version
    THEN "no_update"
    ELSE IF current_is_deprecated(current) THEN "deprecated"
    ELSE IF compare_versions(latest.version, app_version) <= 0 THEN "no_update"
    ELSE "update_available"

\* C22 mutant: the skipped version is honoured by a manual check too.
MutSkipAlways(status, latest, current, app_version, skip_version, ignore_skip) ==
    IF status # "ok" \/ latest = None THEN "error"
    ELSE IF current_is_deprecated(current) THEN "deprecated"
    ELSE IF compare_versions(latest.version, app_version) <= 0 THEN "no_update"
    ELSE IF skip_version # "" /\ skip_version = latest.version THEN "no_update"
    ELSE "update_available"

\* C23 mutant: a version that compares equal is offered.
MutOffersEqual(status, latest, current, app_version, skip_version, ignore_skip) ==
    IF status # "ok" \/ latest = None THEN "error"
    ELSE IF current_is_deprecated(current) THEN "deprecated"
    ELSE IF compare_versions(latest.version, app_version) < 0 THEN "no_update"
    ELSE IF ~ignore_skip /\ skip_version # "" /\ skip_version = latest.version
    THEN "no_update"
    ELSE "update_available"

\* _finalize_descriptor_result, lines 290-315: the result notified, with
\* skip_version what get_skip_version returns, stripped (line 307).
Decision(status, latest, current, app_version, skip_version, ignore_skip) ==
    IF status # "ok" \/ latest = None THEN "error"
    ELSE IF current_is_deprecated(current) THEN "deprecated"
    ELSE IF compare_versions(latest.version, app_version) <= 0 THEN "no_update"
    ELSE IF ~ignore_skip /\ skip_version # "" /\ skip_version = latest.version
    THEN "no_update"
    ELSE "update_available"

\* At most this many lines in a descriptor.
MaxLines == 3

\* Raw lines of a descriptor: blank, comment, two fields, another platform,
\* three, four and five fields, padded fields, flags in upper case.
Lines ==
    {"", "# 1.2|linux|u", "1.2|linux", "1.2|windows|w", "0.9|linux|u9",
     "1.0|linux|u10s", "1.0|Linux|deprecated|u10", " 1.0.0 | linux | Deprecated , x | u100 ",
     "1.1|linux|u11", "1.1|linux||u11b|extra", "1.1-beta|LINUX|,beta,|ub"}

\* _on_descriptor_reply, lines 266-273: the text of a reply without error is
\* parsed.
ParseDescriptor ==
    /\ call.fn = "" /\ DOMAIN call.in = {"lines", "os_tag", "app_version"}
    /\ call' = [call EXCEPT
                  !.fn = "_parse_descriptor",
                  !.out = _parse_descriptor(call.in.lines, call.in.os_tag,
                                            call.in.app_version)]
    /\ UNCHANGED <<mvars, client, dl>>

\* _finalize_descriptor_result with what _on_descriptor_reply passes: the
\* parser's outputs with "ok" (line 273), None and None with "error" (lines
\* 263 and 270).
FinalizeDescriptorResult(status, skip_version, ignore_skip) ==
    /\ call.fn = "_parse_descriptor"
    /\ LET latest  == IF status = "ok" THEN call.out.latest ELSE None
           current == IF status = "ok" THEN call.out.current ELSE None
       IN  call' = [call EXCEPT
                      !.fn = "_finalize_descriptor_result",
                      !.out = [status |-> status,
                               latest |-> latest,
                               current |-> current,
                               skip_version |-> skip_version,
                               ignore_skip |-> ignore_skip,
                               result |-> Decision(status, latest, current,
                                                   call.in.app_version,
                                                   skip_version, ignore_skip)]]
    /\ UNCHANGED <<mvars, client, dl>>

\* A descriptor of at most MaxLines lines and the running version ("0.1a"
\* is VERSION, renight_core.py line 6).
InitDecide ==
    /\ Installed
    /\ client = NewClient("linux")
    /\ \E n \in 0..MaxLines :
          \E lines \in [1..n -> Lines], v \in {"0.1a", "1.0"} :
             call = Args([lines |-> lines, os_tag |-> "linux",
                          app_version |-> v])
    /\ dl = NewStager

NextDecide ==
    \/ ParseDescriptor
    \/ \E status \in {"ok", "error"}, skip_version \in {"", "1.0.0", "1.1"},
          ignore_skip \in BOOLEAN :
          FinalizeDescriptorResult(status, skip_version, ignore_skip)

SpecDecide == InitDecide /\ [][NextDecide]_vars

\* ---------------------------------------------------------------------
\* _UpdateStager: the download and its idle timer
\*
\* Time passes in ticks; the idle timer's 15 s are IdleWindow ticks.  A
\* single-shot timer that has run out fires before time passes on.

\* _arm_idle_timeout, lines 487-488
_arm_idle_timeout(d) == [d EXCEPT !.idle_timer = IdleWindow]

\* start(), lines 452-485: without the updates directory nothing is
\* requested; the request is made (line 468) before the file is opened, and
\* start() returns from a failed open without connecting a handler or
\* arming the timer.
StagerStartDownload(outcome) ==
    /\ dl.reply = "none" /\ dl.shown = ""
    /\ dl' = CASE outcome = "no_dir" ->
                    [dl EXCEPT !.shown = "no_dir"]
               [] outcome = "no_file" ->
                    [dl EXCEPT !.reply = "running", !.shown = "no_file"]
               [] outcome = "ok" ->
                    _arm_idle_timeout([dl EXCEPT !.reply = "running",
                                                 !.out_f = TRUE,
                                                 !.connected = TRUE])
    /\ UNCHANGED <<mvars, client, call>>

\* A chunk arrives: readyRead and downloadProgress.  _on_ready_read (lines
\* 499-509) writes it and arms the timer unless the write raises;
\* _on_progress (lines 511-512) arms the timer.
ChunkReceived(written) ==
    /\ dl.reply = "running" /\ ~dl.stalled
    /\ LET d == [dl EXCEPT !.idle = 0]
       IN  dl' = IF ~dl.connected THEN d
                 ELSE _arm_idle_timeout(
                         [d EXCEPT !.size = IF written /\ @ < MaxChunks
                                            THEN @ + 1 ELSE @])
    /\ UNCHANGED <<mvars, client, call>>

\* The connection stays open and no more bytes arrive.
TransferStalls ==
    /\ dl.reply = "running" /\ ~dl.stalled
    /\ dl' = [dl EXCEPT !.stalled = TRUE]
    /\ UNCHANGED <<mvars, client, call>>

\* _on_download_finished, lines 514-553, for a reply in state res: the timer
\* is stopped, the file closed, and an error or an empty file is shown as a
\* failure.
_on_download_finished(d, res) ==
    [d EXCEPT !.reply = res,
              !.idle_timer = -1,
              !.out_f = FALSE,
              !.shown = IF res # "finished" THEN "download_failed"
                        ELSE IF d.size = 0 THEN "empty" ELSE "downloaded"]

\* The transfer ends by itself, with or without a network error; finished
\* reaches _on_download_finished if it was connected.
TransferEnds(res) ==
    /\ dl.reply = "running" /\ ~dl.stalled
    /\ dl' = IF dl.connected THEN _on_download_finished(dl, res)
             ELSE [dl EXCEPT !.reply = res]
    /\ UNCHANGED <<mvars, client, call>>

\* _on_idle_timeout, lines 490-497, when the single-shot timer has run out:
\* a running reply is aborted, and its finished signal reaches
\* _on_download_finished.
OnIdleTimeout ==
    /\ dl.idle_timer = 0
    /\ dl' = IF dl.reply = "running"
             THEN _on_download_finished(dl, "aborted")
             ELSE [dl EXCEPT !.idle_timer = -1]
    /\ UNCHANGED <<mvars, client, call>>

\* A tick of time, while a transfer or the timer is running.
Tick ==
    /\ dl.reply = "running" \/ dl.idle_timer > 0
    /\ dl.idle_timer # 0
    /\ dl' = [dl EXCEPT !.idle_timer = IF @ > 0 THEN @ - 1 ELSE @,
                        !.idle = IF @ < IdleWindow THEN @ + 1 ELSE @]
    /\ UNCHANGED <<mvars, client, call>>

NextWatchdog ==
    \/ \E outcome \in {"ok", "no_dir", "no_file"} : StagerStartDownload(outcome)
    \/ \E written \in BOOLEAN : ChunkReceived(written)
    \/ TransferStalls
    \/ \E res \in {"finished", "failed"} : TransferEnds(res)
    \/ OnIdleTimeout
    \/ Tick

\* Time passes and a timer that has run out fires.
SpecWatchdog ==
    /\ Init
    /\ [][NextWatchdog]_vars
    /\ WF_vars(Tick)
    /\ WF_vars(OnIdleTimeout)

\* ---------------------------------------------------------------------
\* Two instances of the staged binary

\* The file system with the file at path removed, if it is one of the files.
Without(path) == [f \in Files |-> IF f = path THEN "absent" ELSE fs[f]]

\* The state in which a STAGED record written by the installed application
\* is persisted, the application has quit, and the staged binary has been
\* started twice (by two staging sessions of the instance, or by the stager
\* and once more by the user); neither start has read the record yet.
InitTwoStaged ==
    /\ \E kind \in PayloadKinds :
          /\ fs = [f \in Files |->
                     IF f = "inst" THEN "old"
                     ELSE IF f = StagedPath(kind) THEN "new"
                     ELSE IF f = ArchivePath(kind) THEN "zip"
                     ELSE "absent"]
          /\ dirs = {"updir"} \cup Ancestors(StagedPath(kind))
          /\ cfg = StagedRecord(EmptyCfg, "inst", kind)
          /\ procs = One(NewProc(StagedPath(kind))) (+) One(NewProc(StagedPath(kind)))
    /\ leftover = FALSE /\ budget = MaxEnv /\ faulted = FALSE
    /\ edited = FALSE /\ rewrote = FALSE /\ missing = FALSE /\ legacy = FALSE
    /\ client = NewClient("linux") /\ call = Args(<<>>) /\ dl = NewStager

\* The steps of the two handshakes, of the handshakes of the binaries they
\* start, and of the applications that follow them, in every order.  No
\* operation fails for a reason from outside (no step of a handshake spends
\* the budget, every deletion removes what it finds, every save of an
\* application is written in full); an operation fails only when another
\* process has removed what it needs.  The budget bounds the saves of the
\* applications.
NextTwoStaged ==
    \/ \E r \in Live : HandshakeLoad(r) /\ budget' = budget
    \/ \E r \in Live : StagedMakedirs(r) /\ budget' = budget
    \/ \E r \in Live : AtomicMkstemp(r) /\ budget' = budget
    \/ \E r \in Live : AtomicCopy(r) /\ budget' = budget
    \/ \E r \in Live : AtomicChmod(r) /\ budget' = budget
    \/ \E r \in Live : AtomicRename(r) /\ budget' = budget
    \/ \E r \in Live : AtomicUnlink(r) /\ budget' = budget
    \/ \E r \in Live : StagedFail(r) /\ budget' = budget
    \/ \E r \in Live : StagedSaveCopied(r) /\ budget' = budget
    \/ \E r \in Live : StagedRelaunch(r) /\ budget' = budget
    \/ \E r \in Live : CopiedRemoveExe(r) /\ fs' = Without(r.lcfg.update_cleanup_exe)
    \/ \E r \in Live : CopiedRemoveArchive(r) /\ fs' = Without(r.lcfg.update_archive)
    \/ \E r \in Live : CopiedRemoveDir(r) /\ r.lcfg.update_stage_dir \notin dirs'
    \/ \E r \in Live : CopiedSave(r) /\ budget' = budget
    \/ \E r \in Live : UIInit(r) /\ budget' = budget
    \/ \E r \in Live : SetSnoozedVersion(r) /\ faulted' = faulted /\ cfg'.snoozed_version = NewVersion
    \/ \E r \in Live : RecordUpdateCheck(r) /\ faulted' = faulted /\ cfg'.last_update_check = 1
    \/ \E r \in Live : UIClose(r)

SpecTwoStaged == InitTwoStaged /\ [][NextTwoStaged]_vars

\* ---------------------------------------------------------------------
\* Properties

\* A step of _atomic_replace taken by process r (lines 44-56).
ReplaceStepOf(r) ==
    \/ AtomicMkstemp(r) \/ AtomicCopy(r) \/ AtomicChmod(r)
    \/ AtomicRename(r) \/ AtomicUnlink(r)

\* Process r after its shutil.copy2 returned, the temporary file holding c.
Copied(r, c) == [r EXCEPT !.pc = "ar_chmod", !.tmp = c]

\* C1: every step of the replace leaves every file as it was, except the one
\* rename, which turns old_exe from its previous content into the complete
\* copy held by the temporary file (never a missing file, never a file the
\* replace has written only in part); the temporary file is complete once
\* the copy has returned: it holds what the staged file holds.
C1_AtomicReplace ==
    [][\A r \in Live :
         /\ ReplaceStepOf(r) =>
              \A f \in Files :
                 \/ fs'[f] = fs[f]
                 \/ /\ f = OldExe(r) /\ r.pc = "ar_replace"
                    /\ r.tmp # "absent" /\ fs'[f] = r.tmp
         /\ \A c \in Contents :
              (AtomicCopy(r) /\ procs' = (procs (-) One(r)) (+) One(Copied(r, c))) =>
                 (c = fs[StagedExe(r)] /\ c # "absent")
      ]_vars

\* C1 witness: the rename has just replaced the installed launcher by the
\* new binary and the process is about to leave _atomic_replace.
C1_Witness ==
    \E r \in Live : r.pc = "ar_unlink_ok" /\ OldExe(r) = "inst" /\ fs["inst"] = "new"

\* Process r takes this step and is q afterwards.
Becomes(r, q) == procs' = (procs (-) One(r)) (+) One(q)

\* r is applying a staged update as the staged binary (lines 104-107).
Applying(r) ==
    /\ r.lcfg.update_state = "staged"
    /\ _this_exe(r) = StagedExe(r)

\* C2: in a handshake that started from STAGED as the staged binary, a copy,
\* chmod or rename that fails changes no file and leads, through the removal
\* of the temporary file, to the reset: the reset changes no file, writes
\* state NONE (when its write of the configuration does not itself fail) and
\* the process goes on to the application.  So the content of old_exe is
\* what it was before the run.
C2_FailureResets ==
    [][\A r \in Live : Applying(r) =>
         /\ (r.pc \in {"ar_copy", "ar_chmod", "ar_replace"} /\ ReplaceStepOf(r)
               /\ Becomes(r, [r EXCEPT !.pc = "ar_unlink_err"])) =>
              (fs' = fs /\ cfg' = cfg)
         /\ (r.pc = "ar_unlink_err" /\ AtomicUnlink(r)) =>
              (Becomes(r, [r EXCEPT !.pc = "st_fail", !.tmp = "absent"])
                 /\ fs' = fs /\ cfg' = cfg)
         /\ StagedFail(r) =>
              /\ fs' = fs
              /\ Becomes(r, [r EXCEPT !.pc = "ui_init", !.lcfg = EmptyCfg])
              /\ budget' = budget => cfg'.update_state = ""
      ]_vars

\* C2 witness: the rename failed, the reset was written; the staged binary
\* goes on to its UI and the installed launcher is the original.
C2_Witness ==
    /\ cfg.update_state = "" /\ cfg.update_old_exe = "inst"
    /\ cfg.update_staged_exe \in {"upd", "stg"}
    /\ fs["inst"] = "old" /\ faulted
    /\ \E r \in Live : r.pc = "ui_init" /\ r.argv0 = cfg.update_staged_exe

\* The persisted record is STAGED with both paths present, and process r is
\* not the staged binary.
NotTheStagedBinary(r) ==
    /\ cfg.update_state = "staged"
    /\ cfg.update_staged_exe # "" /\ cfg.update_old_exe # ""
    /\ _this_exe(r) # _canonical(cfg.update_staged_exe)

\* C3: a handshake started in STAGED by a process that is not the staged
\* binary ends at once: the record, the files and the directories are
\* unchanged and the process goes on to the application, at every such
\* launch.
C3_NonActorStaged ==
    [][\A r \in Live : (HandshakeLoad(r) /\ NotTheStagedBinary(r)) =>
         /\ Becomes(r, [r EXCEPT !.pc = "ui_init"])
         /\ cfg' = cfg /\ fs' = fs /\ dirs' = dirs
      ]_vars

\* C3 witness: while an update is staged, a process started from the
\* installed launcher has passed its handshake.
C3_Witness ==
    /\ cfg.update_state = "staged" /\ cfg.update_staged_exe \in {"upd", "stg"}
    /\ \E r \in Live : r.pc = "ui_init" /\ r.argv0 \in {"inst", "lnk"}
    /\ \E r \in Live : r.pc = "hs_load" /\ r.argv0 \in {"inst", "lnk"}

\* C4: the step that takes the staged binary from a successful replace to
\* the relaunch is the write of the record: state COPIED, cleanup_exe the
\* canonical staged_exe the handshake read, old_exe as read (when the write
\* does not fail); no process is at the relaunch without that step, and the
\* relaunch replaces the process by a fresh start of old_exe (or, when
\* old_exe cannot be started, lets it go on to the application).
C4_CopiedBeforeRelaunch ==
    [][/\ \A q \in BagToSet(procs') :
            (q.pc = "st_launch" /\ CopiesIn(q, procs') > CopiesIn(q, procs)) =>
               \E r \in Live :
                  /\ r.pc = "st_save_copied" /\ StagedSaveCopied(r)
                  /\ q = [r EXCEPT !.pc = "st_launch"]
                  /\ budget' = budget =>
                       /\ cfg'.update_state = "copied"
                       /\ cfg'.update_cleanup_exe = _canonical(r.lcfg.update_staged_exe)
                       /\ cfg'.update_old_exe = r.lcfg.update_old_exe
       /\ \A r \in Live :
            StagedRelaunch(r) =>
               /\ r.pc = "st_launch" /\ cfg' = cfg /\ fs' = fs
               /\ \/ Becomes(r, NewProc(OldExe(r)))
                  \/ Becomes(r, [r EXCEPT !.pc = "ui_init", !.lcfg = EmptyCfg])
      ]_vars

\* C4 witness: COPIED is persisted with the staged binary as cleanup_exe,
\* the launcher holds the new binary, and the staged process is about to
\* relaunch it.
C4_Witness ==
    /\ cfg.update_state = "copied" /\ cfg.update_cleanup_exe = "stg"
    /\ cfg.update_old_exe = "inst" /\ fs["inst"] = "new"
    /\ \E r \in Live : r.pc = "st_launch" /\ r.argv0 = "stg"

\* r is cleaning up as the relaunched launcher (lines 160-196).
Cleaning(r) ==
    /\ r.lcfg.update_state = "copied"
    /\ _this_exe(r) = OldExe(r)

\* C5: in a handshake that started from COPIED as old_exe, each of the
\* three deletions, done or failed, is followed by the next one and then by
\* the write of the record, which clears every update key and with them the
\* state (when the write of the configuration does not itself fail), and the
\* process goes on to the application.
C5_CleanupClears ==
    [][\A r \in Live : Cleaning(r) =>
         /\ CopiedRemoveExe(r) =>
              /\ Becomes(r, [r EXCEPT !.pc = "cp_rm_arc"])
              /\ fs' \in {fs, Without(r.lcfg.update_cleanup_exe)}
         /\ CopiedRemoveArchive(r) =>
              /\ Becomes(r, [r EXCEPT !.pc = "cp_rm_dir"])
              /\ fs' \in {fs, Without(r.lcfg.update_archive)}
         /\ CopiedRemoveDir(r) =>
              /\ \E q \in BagToSet(procs') : q = [r EXCEPT !.pc = "cp_save"]
              /\ \/ fs' = fs /\ dirs' = dirs
                 \/ /\ r.lcfg.update_stage_dir \notin dirs'
                    /\ \A f \in Below(r.lcfg.update_stage_dir) : fs'[f] = "absent"
         /\ r.pc = "cp_save" =>
              \/ ~CopiedSave(r)
              \/ /\ Becomes(r, [r EXCEPT !.pc = "ui_init", !.lcfg = EmptyCfg])
                 /\ budget' = budget =>
                      /\ \A k \in UpdateKeys : cfg'[k] = ""
                      /\ cfg'.update_state = ""
      ]_vars

\* C5 witness: the cleanup has ended with the record cleared although the
\* removal of the staged binary and of the stage directory failed, while the
\* archive was removed.
C5_Witness ==
    /\ \A k \in UpdateKeys : cfg[k] = ""
    /\ fs["inst"] = "new" /\ fs["stg"] = "new" /\ fs["arc"] = "absent"
    /\ "stgdir" \in dirs
    /\ \E r \in Live : r.pc = "ui_init" /\ r.argv0 = "inst"

\* C6: at every point of the sequence stage, launch, replace, persist
\* COPIED, relaunch, cleanup (so also in the state left by a termination of
\* the acting process at that point) the file at the old_exe of the record a
\* process is acting on holds a complete binary, the original or the new
\* one.  (Runs with a hand-edited record or with a running executable
\* rewritten in place are left out.)
C6_OldExeComplete ==
    (~edited /\ ~rewrote) =>
       \A r \in Live :
          ((Applying(r) \/ Cleaning(r)) /\ OldExe(r) \in Files) =>
             Executable(fs[OldExe(r)])

\* No process is starting up or staging.
Quiescent == \A r \in Live : r.pc = "ui" /\ r.st = "idle"

\* C7, as a property of finite runs: when nothing has failed, every launched
\* process has run its handshake and no staging is in progress, every update
\* that was staged has been completed: no record is pending and no staged
\* binary is left in the updates directory.
C7_StagedUpdateCompletes ==
    (~faulted /\ ~edited /\ ~rewrote /\ Quiescent) =>
       (cfg.update_state = "" /\ fs["upd"] # "new" /\ fs["stg"] # "new")

\* A step that is a configuration save of the application model of r.
UISave(r) == SetSnoozedVersion(r) \/ RecordUpdateCheck(r)

\* C8: a configuration save of a running application instance (snooze
\* selection, update-check timestamp), in a run where nothing has failed,
\* leaves the update state, and every update field of a pending record, as
\* it was.
C8_UISavesKeepRecord ==
    [][\A r \in Live :
         (UISave(r) /\ ~faulted') =>
            /\ cfg'.update_state = cfg.update_state
            /\ cfg.update_state # "" => \A k \in UpdateKeys : cfg'[k] = cfg[k]
      ]_vars

\* "" and normpath("") both stand for an empty path field.
EmptyField(v) == v \in {"", "."}

\* C9: in every persisted record, state is NONE exactly when version,
\* old_exe, staged_exe, stage_dir, archive and cleanup_exe are all
\* empty.  (Records edited by hand are left out.)
C9_NoneIffEmpty ==
    ~edited =>
       (cfg.update_state = "" <=>
          \A k \in UpdateKeys \ {"update_state"} : EmptyField(cfg[k]))

\* C10: in every persisted record with state STAGED, staged_exe and old_exe
\* are non-empty and canonically distinct.  (Records edited by hand are left
\* out.)
C10_StagedPathsDistinct ==
    ~edited =>
       (cfg.update_state = "staged" =>
          /\ cfg.update_staged_exe # "" /\ cfg.update_old_exe # ""
          /\ _canonical(cfg.update_staged_exe) # _canonical(cfg.update_old_exe))

\* C11: in every persisted record with state COPIED, old_exe is non-empty and
\* the file at old_exe holds the complete staged binary.  (Records edited by
\* hand and runs with a running executable rewritten in place are left out.)
C11_CopiedOldExeIsNew ==
    (~edited /\ ~rewrote) =>
       (cfg.update_state = "copied" =>
          /\ cfg.update_old_exe # ""
          /\ _canonical(cfg.update_old_exe) \in Files
          /\ fs[_canonical(cfg.update_old_exe)] = "new")

\* Positions of the handshake between the actor check of the STAGED branch
\* and its exit (lines 104-131), and between the actor check of the COPIED
\* branch and its save (lines 160-196).
ReplacePcs ==
    {"st_mkdirs", "ar_mkstemp", "ar_copy", "ar_chmod", "ar_replace",
     "ar_unlink_ok", "ar_unlink_err", "st_fail", "st_save_copied", "st_launch"}

CleanupPcs == {"cp_rm_exe", "cp_rm_arc", "cp_rm_dir", "cp_save"}

\* Positions between the read of the record and the write of a transition.
ActingPcs == ReplacePcs \cup CleanupPcs \cup {"st_clear", "cp_clear"}

\* The number of live processes that are acting on a record they have read.
Acting == BagCardinality([r \in {q \in Live : q.pc \in ActingPcs} |-> procs[r]])

\* The two path guards: only the staged binary is in the replace, only
\* old_exe is in the cleanup.
ActorGuards ==
    \A r \in Live :
       /\ r.pc \in ReplacePcs =>
            (r.lcfg.update_state = "staged" /\ _this_exe(r) = StagedExe(r))
       /\ r.pc \in CleanupPcs =>
            (r.lcfg.update_state = "copied" /\ _this_exe(r) = OldExe(r))

\* C12 as stated: the two path guards, and never two live processes between
\* reading the record and writing their transition.
C12_SingleActor == ActorGuards /\ Acting <= 1

\* C12 amended: a process that is not the staged binary of the record it read
\* is never in the replace, and a process that is not the old_exe of the
\* record it read is never in the cleanup.
C12_ActorGuards == ActorGuards

\* C12 witness: two live processes act at the same time, and each of them
\* passed its guard.
C12_Witness ==
    /\ Acting = 2
    /\ \E r \in Live : r.pc \in ReplacePcs
    /\ \E r \in Live : r.pc \in CleanupPcs

\* The persisted record is STAGED with both paths present, and process r is
\* the staged binary.
IsTheStagedBinary(r) ==
    /\ cfg.update_state = "staged"
    /\ cfg.update_staged_exe # "" /\ cfg.update_old_exe # ""
    /\ _this_exe(r) = _canonical(cfg.update_staged_exe)

\* The number of live processes whose os.replace onto old_exe has returned
\* and that have not yet left the STAGED branch.
Replaced ==
    BagCardinality([r \in {q \in Live : q.pc \in {"ar_unlink_ok", "st_save_copied", "st_launch"}}
                      |-> procs[r]])

\* C13: a launch of the staged binary that reads STAGED passes the actor
\* check and enters the replace whatever other live processes are doing, so
\* also when another instance of the staged binary is already in it; hence
\* the interleaving in which two instances both execute the replace (the
\* witness).
C13_GuardIgnoresOthers ==
    [][\A r \in Live :
         (HandshakeLoad(r) /\ IsTheStagedBinary(r) /\ budget' = budget) =>
            Becomes(r, [r EXCEPT !.pc = "st_mkdirs", !.lcfg = cfg])
      ]_vars

\* C13 witness: two live instances of the same staged binary have both read
\* STAGED, passed the check and renamed their copy onto old_exe.
C13_Witness ==
    /\ Replaced = 2
    /\ \A r \in Live : r.lcfg.update_state = "staged" /\ _this_exe(r) = StagedExe(r)
    /\ \A r, q \in Live : r.argv0 = q.argv0 /\ OldExe(r) = OldExe(q)

\* Process r is launched after a transition of its own executable was
\* completed: the record is COPIED and r is the staged binary that wrote it
\* (its cleanup_exe), or the record is NONE.
ReEntry(r) ==
    \/ cfg.update_state = ""
    \/ /\ cfg.update_state = "copied"
       /\ _this_exe(r) = _canonical(cfg.update_cleanup_exe)

NotTheOldExe(r) ==
    /\ cfg.update_state = "copied"
    /\ cfg.update_old_exe # ""
    /\ _this_exe(r) # _canonical(cfg.update_old_exe)

\* C15: a handshake started in COPIED by a process that is not old_exe ends
\* at once: the record is unchanged, no file and no directory is removed,
\* and the process goes on to the application.
C15_NonActorCopied ==
    [][\A r \in Live : (HandshakeLoad(r) /\ NotTheOldExe(r)) =>
         /\ Becomes(r, [r EXCEPT !.pc = "ui_init"])
         /\ cfg' = cfg /\ fs' = fs /\ dirs' = dirs
      ]_vars

\* C15 witness: COPIED is persisted with the staged binary, the archive and
\* the stage directory still there, nothing has failed, and a process
\* started from the staged binary has passed its handshake while the
\* relaunched launcher has not yet removed anything.
C15_Witness ==
    /\ cfg.update_state = "copied" /\ cfg.update_old_exe = "inst"
    /\ cfg.update_cleanup_exe = "stg"
    /\ fs["stg"] = "new" /\ fs["arc"] = "zip" /\ "stgdir" \in dirs
    /\ ~faulted
    /\ \E r \in Live : r.pc = "ui_init" /\ r.argv0 = "stg"
    /\ \E q \in Live : q.pc = "cp_rm_exe" /\ q.argv0 = "inst"

\* The persisted record is STAGED with a path missing, or COPIED without
\* old_exe.
StagedIncomplete ==
    cfg.update_state = "staged" /\ (cfg.update_staged_exe = "" \/ cfg.update_old_exe = "")

CopiedIncomplete == cfg.update_state = "copied" /\ cfg.update_old_exe = ""

\* C16: a handshake that reads an incomplete STAGED or COPIED record goes
\* straight to the write that resets the state, whoever runs it; that write
\* persists state NONE (when it does not itself fail); no file or directory
\* changes on the way and the process goes on to the application.
C16_IncompleteRecordCleared ==
    [][\A r \in Live :
         /\ (HandshakeLoad(r) /\ StagedIncomplete /\ budget' = budget) =>
              /\ Becomes(r, [r EXCEPT !.pc = "st_clear", !.lcfg = cfg])
              /\ cfg' = cfg /\ fs' = fs /\ dirs' = dirs
         /\ (HandshakeLoad(r) /\ CopiedIncomplete /\ budget' = budget) =>
              /\ Becomes(r, [r EXCEPT !.pc = "cp_clear", !.lcfg = cfg])
              /\ cfg' = cfg /\ fs' = fs /\ dirs' = dirs
         /\ ((StagedClear(r) \/ CopiedClear(r)) /\ r.pc \in {"st_clear", "cp_clear"}) =>
              /\ Becomes(r, [r EXCEPT !.pc = "ui_init", !.lcfg = EmptyCfg])
              /\ fs' = fs /\ dirs' = dirs
              /\ budget' = budget => cfg'.update_state = ""
      ]_vars

\* C16 witness: a STAGED record that had lost old_exe was reset by the
\* staged binary: state NONE, the launcher and the staged file as they were,
\* and the process is on its way to the application.
C16_Witness ==
    /\ edited /\ ~faulted
    /\ cfg.update_state = "" /\ cfg.update_old_exe = ""
    /\ cfg.update_staged_exe = "upd"
    /\ fs["inst"] = "old" /\ fs["upd"] = "new"
    /\ \E r \in Live : r.pc = "ui_init" /\ r.argv0 = "upd"

\* The handshake of r reads state NONE, or cannot load the configuration.
NothingPending(r) == cfg.update_state = "" \/ budget' # budget

\* C17: a handshake that finds state NONE, or cannot load the configuration,
\* takes no action: the configuration file is as it was (not created, not
\* written), no file or directory changes, and the process goes on to the
\* application.
C17_NoActionWhenNone ==
    [][\A r \in Live :
         (HandshakeLoad(r) /\ NothingPending(r)) =>
            /\ cfg' = cfg /\ missing' = missing
            /\ fs' = fs /\ dirs' = dirs
            /\ Becomes(r, [r EXCEPT !.pc = "ui_init"])
      ]_vars

\* The stager session of r has ended in a failure: r goes on as an idle
\* application.
BackToIdle(r) == Becomes(r, [r EXCEPT !.st = "idle", !.kind = ""])

\* C18: after every failure of staging or of the handshake the persisted
\* state is NONE: a failed download or extraction (when nothing was pending
\* before), a failure to start the staged binary, a failed replace (when
\* the reset's own write does not fail) and a failure to start old_exe
\* after the replace; the process goes on in each case.
C18_FailuresLeaveNone ==
    [][\A r \in Live :
         /\ ((StagerDownloadFinished(r) \/ StagerExtract(r)) /\ BackToIdle(r)
                /\ cfg.update_state = "") => cfg'.update_state = ""
         /\ (StagerLaunch(r) /\ BackToIdle(r)) => cfg'.update_state = ""
         /\ (StagedFail(r) /\ budget' = budget) => cfg'.update_state = ""
         /\ (StagedRelaunch(r)
                /\ Becomes(r, [r EXCEPT !.pc = "ui_init", !.lcfg = EmptyCfg])) =>
              cfg'.update_state = ""
      ]_vars

\* A step of the stager of r before _finalize_and_launch: start, the end of
\* the download, extraction.
PreFinalizeStep(r) ==
    \/ \E k \in PayloadKinds : StagerStart(r, k)
    \/ StagerDownloadFinished(r)
    \/ StagerExtract(r)

\* C19: no step of a staging session before _finalize_and_launch, failed or
\* not, changes the persisted record, creates the configuration file or
\* starts a process; a session that fails in one of them is over (the
\* instance is idle again), so it never reaches the write of STAGED and the
\* launch.
C19_NoPersistBeforeFinalize ==
    [][\A r \in Live :
         PreFinalizeStep(r) =>
            /\ cfg' = cfg /\ missing' = missing
            /\ BagCardinality(procs') = BagCardinality(procs)
            /\ \A q \in BagToSet(procs') :
                  q.st \in {"fin_save", "fin_launch", "msgbox"} =>
                     \/ q \in Live
                     \/ /\ q = [r EXCEPT !.st = "fin_save"]
                        /\ fs'[StagedPath(q.kind)] = "new"
      ]_vars

\* C19 witness: an instance downloaded an archive whose extraction failed:
\* the archive is there, no staged binary, the instance is idle again,
\* nothing is persisted and no other process runs.
C19_Witness ==
    /\ budget = MaxEnv - 3 /\ faulted
    /\ fs["arc"] = "zip" /\ fs["stg"] = "absent"
    /\ cfg.update_state = ""
    /\ BagCardinality(procs) = 1
    /\ \E r \in Live : r.pc = "ui" /\ r.st = "idle"

\* A descriptor request is made in this step, and it is request id.
Requested(id) == client'.nreq = id /\ client.nreq = id - 1

\* C20: a descriptor request made while the network request of an earlier
\* one is outstanding delivers "error" to its own callback (if it has one)
\* and to no other, issues no network request and leaves the guard and the
\* stored ignore_skip and callback of the outstanding request as they are;
\* and never is more than one descriptor network request outstanding.
C20_InFlightGuard ==
    /\ [](client.net <= 1)
    /\ [][\A id \in ReqIds :
            (client.net > 0 /\ Requested(id)) =>
               /\ client'.net = client.net
               /\ client'.in_flight = client.in_flight
               /\ client'.ignore_skip_for_this_request
                     = client.ignore_skip_for_this_request
               /\ client'.result_callback_for_this_request
                     = client.result_callback_for_this_request
               /\ \A i \in ReqIds :
                     client'.got[i] =
                        IF i = id /\ id \in client'.withcb
                        THEN Append(client.got[i], "error")
                        ELSE client.got[i]
       ]_vars

\* C20 witness: the second request, a manual check, was made while the
\* silent check's network request was outstanding: it has its "error", the
\* first request's network request is still the only one, and the stored
\* settings are those of the silent check.
C20_Witness ==
    /\ client.nreq = 2 /\ client.net = 1 /\ client.in_flight
    /\ ~client.timer
    /\ client.withcb = {2}
    /\ client.got[2] = <<"error">>
    /\ ~client.ignore_skip_for_this_request
    /\ client.result_callback_for_this_request = NoCallback

\* C24: compare is a total preorder on the version strings: a result is
\* -1, 0 or 1, compare(a,a) = 0, compare(a,b) = -compare(b,a), and
\* compare(a,b) <= 0 and compare(b,c) <= 0 imply compare(a,c) <= 0.
C24_TotalPreorder ==
    call.fn = "compare_versions" =>
        /\ \A k \in DOMAIN call.out : call.out[k] \in {-1, 0, 1}
        /\ call.out.aa = 0
        /\ call.out.ab = -call.out.ba
        /\ (call.out.ab <= 0 /\ call.out.bc <= 0) => call.out.ac <= 0

\* C24 witness: a chain of a beta, its stable version of another padding and
\* a malformed string that reads as a greater version.
C24_Witness ==
    /\ call.fn = "compare_versions"
    /\ call.in = <<"0.03-BETA", "0.3.0", "1.">>
    /\ call.out.ab = -1 /\ call.out.bc = -1 /\ call.out.ac = -1

\* The numeric tuple of the claim: the components, separated by ".", of the
\* longest prefix of v made of digits and dots; (0) for an empty prefix; an
\* empty component is 0.
C25_Prefix(v) ==
    CHOOSE p \in {SubSeq(v, 1, n) : n \in 0..Len(v)} :
        /\ \A i \in 1..Len(p) : Char(p, i) \in Digits \cup {"."}
        /\ Len(p) < Len(v) => Char(v, Len(p) + 1) \notin Digits \cup {"."}

C25_Component(v, i) ==
    LET parts == Split(C25_Prefix(v), ".")
    IN  IF i > Len(parts) \/ parts[i] = "" THEN 0 ELSE int(parts[i])

C25_Length(v) == Len(Split(C25_Prefix(v), "."))

\* The first component, with zeros after the end of the shorter tuple, in
\* which a and b differ; 0 if there is none.
C25_FirstDifference(a, b) ==
    LET n == IF C25_Length(a) > C25_Length(b)
             THEN C25_Length(a) ELSE C25_Length(b)
        D == {i \in 1..n : C25_Component(a, i) # C25_Component(b, i)}
    IN  IF D = {} THEN 0 ELSE CHOOSE i \in D : \A j \in D : i <= j

\* beta: contains "beta" or ends in "b", in any case of the letters.
C25_Beta(v) ==
    \/ \E i \in 1..(Len(v) - 3) : Lower(SubSeq(v, i, i + 3)) = "beta"
    \/ (v # "" /\ Lower(Char(v, Len(v))) = "b")

C25_Expected(a, b) ==
    LET d == C25_FirstDifference(a, b)
    IN  IF d # 0
        THEN IF C25_Component(a, d) < C25_Component(b, d) THEN -1 ELSE 1
        ELSE IF C25_Beta(a) /\ ~C25_Beta(b) THEN -1
        ELSE IF C25_Beta(b) /\ ~C25_Beta(a) THEN 1
        ELSE 0

\* C25: compare(a,b) is the lexicographic comparison of the numeric tuples
\* of a and b, the shorter padded with zeros, and, only if those are equal,
\* -1 if a alone is beta, 1 if b alone is beta, and 0 otherwise.
C25_CompareIsTupleThenBeta ==
    call.fn = "compare_versions" =>
        /\ call.out.ab = C25_Expected(call.in[1], call.in[2])
        /\ call.out.bc = C25_Expected(call.in[2], call.in[3])
        /\ call.out.ac = C25_Expected(call.in[1], call.in[3])

\* C25 witness: equal numeric tuples of different padding decided by the
\* beta rule, and a pair decided by a padded component.
C25_Witness ==
    /\ call.fn = "compare_versions"
    /\ call.in = <<"0.3-beta", "0.3.0", "0.3.1">>
    /\ call.out.ab = -1 /\ call.out.ba = 1 /\ call.out.bc = -1

\* A descriptor was fetched and parsed and its result decided.
Decided == call.fn = "_finalize_descriptor_result"

\* C21: whenever the descriptor was fetched, latest is present and the
\* current entry has the flag "deprecated", the decision is "deprecated",
\* whatever skip_version and ignore_skip are and however latest compares
\* with the running version.
C21_DeprecatedWins ==
    (/\ Decided
     /\ call.out.status = "ok"
     /\ call.out.latest # None
     /\ current_is_deprecated(call.out.current))
    => call.out.result = "deprecated"

\* C21 witness: the running version is deprecated, a newer version is the
\* latest and it is the skipped one, in a check that honours the skip.
C21_Witness ==
    /\ Decided /\ call.out.status = "ok"
    /\ call.out.latest # None /\ current_is_deprecated(call.out.current)
    /\ compare_versions(call.out.latest.version, call.in.app_version) > 0
    /\ call.out.skip_version = call.out.latest.version
    /\ ~call.out.ignore_skip
    /\ call.out.result = "deprecated"

\* C22: when the descriptor was fetched, current is not deprecated and
\* latest is greater than the running version, the decision is "no_update"
\* exactly when ignore_skip is false and skip_version equals latest.version,
\* and "update_available" otherwise.
C22_SkipRule ==
    (/\ Decided
     /\ call.out.status = "ok"
     /\ call.out.latest # None
     /\ ~current_is_deprecated(call.out.current)
     /\ compare_versions(call.out.latest.version, call.in.app_version) > 0)
    => call.out.result =
          IF ~call.out.ignore_skip
             /\ call.out.skip_version = call.out.latest.version
          THEN "no_update" ELSE "update_available"

\* C22 witness: the skipped version is an older one than the latest, so the
\* latest is offered by a check that honours the skip.
C22_Witness ==
    /\ Decided /\ call.out.status = "ok"
    /\ call.out.latest # None /\ ~current_is_deprecated(call.out.current)
    /\ call.in.app_version = "1.0"
    /\ call.out.skip_version = "1.0.0"
    /\ call.out.latest.version = "1.1"
    /\ ~call.out.ignore_skip
    /\ call.out.result = "update_available"

\* The ordered rule of the claim.
C23_Rule(status, latest, current, running_version, skip_version, ignore_skip) ==
    CASE status # "ok" \/ latest = None -> "error"
      [] OTHER ->
         CASE current_is_deprecated(current) -> "deprecated"
           [] OTHER ->
              CASE compare_versions(latest.version, running_version) <= 0
                      -> "no_update"
                [] OTHER ->
                   IF ~ignore_skip /\ skip_version = latest.version
                   THEN "no_update" ELSE "update_available"

\* C23: the decision is the five-step rule applied to the fetch status,
\* latest, current, the running version, skip_version and ignore_skip, and
\* an update is offered only for a version strictly greater than the
\* running one.
C23_OrderedRule ==
    Decided =>
        /\ call.out.result =
              C23_Rule(call.out.status, call.out.latest, call.out.current,
                       call.in.app_version, call.out.skip_version,
                       call.out.ignore_skip)
        /\ call.out.result = "update_available" =>
              compare_versions(call.out.latest.version,
                               call.in.app_version) > 0

\* C23 witness: the latest version is the running one, not flagged, and
\* nothing is offered although no version is skipped.
C23_Witness ==
    /\ Decided /\ call.out.status = "ok"
    /\ call.in.app_version = "1.0"
    /\ call.out.latest # None /\ call.out.latest.version = "1.0"
    /\ call.out.current # None /\ ~current_is_deprecated(call.out.current)
    /\ call.out.skip_version = "" /\ call.out.ignore_skip
    /\ call.out.result = "no_update"

\* A descriptor was parsed.
Parsed == call.fn = "_parse_descriptor"

\* C26: the parser's current is present only if the version of a matching
\* line is the same string as the running version, and it is the entry of
\* such a line; a line whose version only compares equal is not selected.
C26_CurrentIsExact ==
    (Parsed /\ call.out.current # None) =>
        /\ call.out.current.version = call.in.app_version
        /\ \E i \in DOMAIN call.in.lines :
              call.out.current = LineEntry(call.in.lines[i], call.in.os_tag)

\* The matching lines of the descriptor that was parsed.
C27_Matching ==
    {i \in DOMAIN call.in.lines :
        LineEntry(call.in.lines[i], call.in.os_tag) # None}

C27_Version(i) == LineEntry(call.in.lines[i], call.in.os_tag).version

\* The matching lines of a version no less than that of every matching line.
C27_Greatest ==
    {i \in C27_Matching :
        \A j \in C27_Matching :
            compare_versions(C27_Version(i), C27_Version(j)) >= 0}

\* C27: latest is absent exactly when no line matches; otherwise it is the
\* entry of the first of the matching lines whose version is greater than
\* or equal to the version of every matching line.
C27_LatestIsFirstGreatest ==
    Parsed =>
        /\ call.out.latest = None <=> C27_Matching = {}
        /\ C27_Matching # {} =>
              /\ C27_Greatest # {}
              /\ \E i \in C27_Greatest :
                    /\ \A j \in C27_Greatest : i <= j
                    /\ call.out.latest =
                          LineEntry(call.in.lines[i], call.in.os_tag)

\* C27 witness: two lines have the greatest version, one of another version
\* stands before them, and latest is the first of the two.
C27_Witness ==
    /\ Parsed
    /\ call.in.lines =
          <<"0.9|linux|u9", "1.1|linux||u11b|extra", "1.1|linux|u11">>
    /\ call.out.latest = UpdateEntry("1.1", <<>>, "u11b")

\* The fields of a line as the claim reads them: the line without the white
\* space around it, separated at "|", each field without the white space
\* around it.
C28_Fields(line) == StripAll(Split(Strip(line), "|"))

\* The line is not blank, does not start with "#", has three fields or more
\* and its os field is the platform tag in some case of the letters.
C28_Contributes(line, os_tag) ==
    /\ Strip(line) # ""
    /\ Char(Strip(line), 1) # "#"
    /\ Len(C28_Fields(line)) >= 3
    /\ Lower(C28_Fields(line)[2]) = Lower(os_tag)

\* The entry of a contributing line: of three fields, no flags and the third
\* field as url; of four or more, the items of the third field between
\* commas as flags (trimmed, in lower case, without empty items) and the
\* fourth field as url.
C28_Entry(line) ==
    LET f == C28_Fields(line)
    IN  IF Len(f) = 3
        THEN [version |-> f[1], flags |-> <<>>, url |-> f[3]]
        ELSE [version |-> f[1], flags |-> Flags(Split(f[3], ",")), url |-> f[4]]

C28_Kept(lines, os_tag) ==
    LET keep(l) == C28_Contributes(l, os_tag)
    IN  SelectSeq(lines, keep)

\* C28: the lines that are blank, comments, of fewer than three fields or of
\* another platform contribute nothing: the outputs are those of the
\* descriptor without them; every other line alone yields its entry, with
\* no flags and the third field as url for three fields, the third field's
\* flags and the fourth field as url for four or more.
C28_PerLine ==
    Parsed =>
        /\ call.out = _parse_descriptor(C28_Kept(call.in.lines, call.in.os_tag),
                                        call.in.os_tag, call.in.app_version)
        /\ \A i \in DOMAIN call.in.lines :
              LET l == call.in.lines[i]
                  alone == _parse_descriptor(<<l>>, call.in.os_tag,
                                             call.in.app_version)
              IN  IF C28_Contributes(l, call.in.os_tag)
                  THEN alone.latest = C28_Entry(l)
                  ELSE alone.latest = None /\ alone.current = None

\* C28 witness: a comment and a line of two fields around a padded line of
\* four fields whose platform and flags are in another case: the entry is
\* that of the padded line.
C28_Witness ==
    /\ Parsed
    /\ call.in.lines = <<"# 1.2|linux|u",
                         " 1.0.0 | linux | Deprecated , x | u100 ",
                         "1.2|linux">>
    /\ call.out.latest = UpdateEntry("1.0.0", <<"deprecated", "x">>, "u100")

\* C29: the watchdog aborts a transfer only when a full idle window has
\* passed since the last chunk arrived, and a transfer that stalls without
\* finishing is eventually aborted and shown as a failed download.
C29_IdleWatchdog ==
    /\ [][(dl.reply = "running" /\ dl'.reply = "aborted")
              => dl.idle = IdleWindow]_vars
    /\ (dl.reply = "running" /\ dl.stalled)
          ~> (dl.reply = "aborted" /\ dl.shown = "download_failed")

\* main, line 200: _handle_pending_update_startup has not returned yet.
InHandshake(r) == r.pc \notin {"ui_init", "ui"}

\* The application of r reads or writes the configuration in this step: the
\* load of its model, a save of its model, the stager's write of STAGED.
UIConfigAccess(r) ==
    \/ UIInit(r) \/ SetSnoozedVersion(r) \/ RecordUpdateCheck(r)
    \/ StagerFinalizeSave(r)

\* C30: in every process the handshake has returned before the application
\* is constructed: a process in its handshake has no model and no staging
\* session, the application is constructed only from the point where the
\* handshake returned, and no read or write of the configuration by the
\* application of a process is a step of a process still in its handshake.
C30_HandshakeBeforeUI ==
    /\ [](\A r \in Live : InHandshake(r) => r.mem = EmptyMem /\ r.st = "idle")
    /\ [][\A r \in Live :
            /\ UIConfigAccess(r) => ~InHandshake(r)
            /\ UIInit(r) => r.pc = "ui_init"
       ]_vars

\* C30 witness: the relaunched launcher has done the cleanup of its
\* handshake, and only then its application has loaded the cleared record
\* and written the time of an update check.
C30_Witness ==
    /\ ~faulted /\ fs["inst"] = "new" /\ fs["stg"] = "absent"
    /\ cfg.update_state = "" /\ cfg.last_update_check = 1
    /\ BagCardinality(procs) = 1
    /\ \E r \in Live :
          /\ r.pc = "ui" /\ r.argv0 = "inst"
          /\ r.mem.last_update_check = 1 /\ r.mem.update_state = ""

\* The record the stager of r persists is the configuration file (lines
\* 590-598), and the record the handshake of r persists after its replace
\* is (lines 114-116).
C31_StagedIntent(r) == cfg = StagedRecord(cfg, r.argv0, r.kind)

C31_CopiedIntent(r) == cfg = CopiedRecord(r.lcfg, StagedExe(r))

\* r has started the staged binary and shows "Update started"; q is a start
\* of that binary whose handshake has not read the record yet; no third
\* process is alive.
C31_HandedOff(r, q) ==
    /\ r.pc = "ui" /\ r.st = "msgbox"
    /\ q.pc = "hs_load" /\ q.argv0 = StagedPath(r.kind)
    /\ BagCardinality(procs) = 2

\* C31: the stager reaches its launch only through its write of STAGED and
\* the handshake reaches its relaunch only through its write of COPIED; the
\* record the launcher wrote sends the process it starts into the replace
\* (STAGED) or the cleanup (COPIED); and from the launch of the staged
\* binary to the read of its handshake the record stays the one the old
\* process wrote, when nothing fails, no process is terminated, the file is
\* not edited and no third process is alive.
C31_HandOffOrdering ==
    [][/\ \A q \in BagToSet(procs') :
            (q.st = "fin_launch" /\ CopiesIn(q, procs') > CopiesIn(q, procs)) =>
               \E r \in Live :
                  /\ StagerFinalizeSave(r) /\ q = [r EXCEPT !.st = "fin_launch"]
                  /\ budget' = budget => cfg' = StagedRecord(cfg, r.argv0, r.kind)
       /\ \A r \in Live :
            /\ (StagerLaunch(r) /\ C31_StagedIntent(r)) =>
                  HandshakeBranch(cfg, _canonical(StagedPath(r.kind))) = "st_mkdirs"
            /\ (StagedRelaunch(r) /\ C31_CopiedIntent(r)) =>
                  HandshakeBranch(cfg, OldExe(r)) = "cp_rm_exe"
            /\ \A q \in Live :
                  (C31_HandedOff(r, q) /\ C31_StagedIntent(r) /\ ~faulted' /\ ~edited') =>
                     \/ cfg' = cfg
                     \/ HandshakeLoad(q)
      ]_vars

\* The record c is the record of a payload staged without extraction: the
\* staged executable is the downloaded file itself (lines 575-576).
C32_BarePayload(c) ==
    c.update_staged_exe # "" /\ c.update_staged_exe = c.update_archive

\* C32: every persisted record of a payload staged without extraction has
\* an empty stage_dir, and the cleanup of such a record removes no
\* directory and no file other than the staged executable (which is the
\* archive) of that record.  (Records edited by hand are left out.)
C32_BareStageDirEmpty ==
    /\ [](~edited =>
            ((cfg.update_state # "" /\ C32_BarePayload(cfg)) =>
                cfg.update_stage_dir = ""))
    /\ [][\A r \in Live :
            (Cleaning(r) /\ C32_BarePayload(r.lcfg) /\ ~edited
               /\ (CopiedRemoveExe(r) \/ CopiedRemoveArchive(r) \/ CopiedRemoveDir(r))) =>
                  /\ dirs' = dirs
                  /\ \A f \in Files : f # r.lcfg.update_archive => fs'[f] = fs[f]
       ]_vars

\* C33: the guard is held exactly while the reply of the accepted request
\* is outstanding or being processed (its dialog open): once the reply has
\* been processed, with a result or with an exception, and its dialog has
\* closed, in_flight is false.  A request made while the guard is held gets
\* "error" at once and issues nothing; a request made after the release (on
\* a platform with an os tag) is accepted: it takes the guard and issues its
\* network request, and nothing is delivered yet.
C33_GuardReleased ==
    /\ [](client.in_flight <=> (client.net > 0 \/ client.pc = "dialog"))
    /\ [][\A id \in ReqIds :
            Requested(id) =>
               IF client.net > 0 \/ client.pc = "dialog"
               THEN /\ client'.net = client.net
                    /\ client'.in_flight
                    /\ client'.got =
                          [client.got EXCEPT ![id] =
                              IF id \in client'.withcb THEN Append(@, "error") ELSE @]
               ELSE client.os_tag # "" =>
                       /\ client'.in_flight
                       /\ client'.net = client.net + 1
                       /\ client'.got = client.got
       ]_vars

\* C33 witness: the first request, a manual check, ended in an exception
\* after its dialog (its callback got nothing); the guard was released, and
\* the second request has been accepted and is outstanding.
C33_Witness ==
    /\ client.nreq = 2 /\ client.withcb = {1, 2}
    /\ client.got[1] = <<>> /\ client.got[2] = <<>>
    /\ client.in_flight /\ client.net = 1 /\ client.pc = "idle"
    /\ client.result_callback_for_this_request = 2

\* The callback of request id got the results rs and no other callback got
\* anything in this step.
C34_Delivers(id, rs) ==
    client'.got = [client.got EXCEPT ![id] = rs]

\* C34: a callback is never invoked twice and only with one of the four
\* results; a request made without a callback delivers nothing; once no
\* request is accepted and unanswered, every request made with a callback
\* has delivered its result, and while one is, every other has; a delivery
\* is either the "error" of a request rejected in this step, to its own
\* callback, or the result of the reply being processed, to the callback
\* stored with the accepted request.
C34_ExactlyOneResult ==
    /\ [](\A i \in ReqIds :
            /\ Len(client.got[i]) <= 1
            /\ \A k \in 1..Len(client.got[i]) : client.got[i][k] \in Results
            /\ i \notin client.withcb => client.got[i] = <<>>
            /\ i \in client.withcb =>
                  Len(client.got[i]) =
                     IF client.in_flight /\ client.result_callback_for_this_request = i
                     THEN 0 ELSE 1)
    /\ [][client'.got # client.got =>
            \/ \E id \in ReqIds :
                  /\ Requested(id) /\ client'.net = client.net
                  /\ C34_Delivers(id, <<"error">>)
            \/ /\ client.in_flight /\ ~client'.in_flight
               /\ client'.nreq = client.nreq
               /\ \E res \in Results :
                     /\ client.pc = "dialog" => res = client.result
                     /\ C34_Delivers(client.result_callback_for_this_request, <<res>>)
       ]_vars

\* C35: an application instance never has more than one staging session
\* (a stager whose download, extraction or finalize has not ended).
C35_OneStagingSession == client.sessions <= 1

\* Every launched process has finished its handshake (or has exited).
C36_AllFinished == \A r \in Live : r.pc \in {"ui_init", "ui"}

\* C36: from STAGED with two instances of the staged binary started, in
\* every order of their steps and of the steps of the binaries they start:
\* old_exe (the installed launcher) holds a complete binary at every moment;
\* a step of the replace of one process changes no other process, so not
\* its temporary file; and whenever every launched process has finished its
\* handshake, old_exe holds the new binary and the persisted state is
\* neither STAGED nor COPIED.
C36_TwoStagedInstances ==
    /\ [](Executable(fs["inst"]))
    /\ [][\A r \in Live :
            ReplaceStepOf(r) => \E q \in BagToSet(procs') : Becomes(r, q)]_vars
    /\ [](C36_AllFinished =>
            (fs["inst"] = "new" /\ cfg.update_state \notin {"staged", "copied"}))

\* The configuration keys that are not update keys (the folders and the
\* symlink option are carried the same way as these two).
C37_NonUpdateKeys == {"snoozed_version", "last_update_check"}

\* A write of the record by the handshake of process r.
C37_HandshakeWrite(r) ==
    \/ StagedClear(r) \/ StagedFail(r) \/ StagedSaveCopied(r)
    \/ CopiedClear(r) \/ CopiedSave(r)

\* C37: every write of the persisted record by the handshake (STAGED
\* cleared, reset after a failed replace, COPIED, cleanup) or by the stager
\* (STAGED) leaves every non-update key with the value the writing operation
\* loaded: a save that is written in full persists the loaded value (for the
\* stager, the value of the file it has just read, or the default when its
\* read failed), and a save that fails leaves the file's value or none.
C37_WritesKeepOtherKeys ==
    [][\A r \in Live : \A k \in C37_NonUpdateKeys :
         /\ C37_HandshakeWrite(r) =>
              /\ cfg'[k] \in {r.lcfg[k], cfg[k], EmptyCfg[k]}
              /\ budget' = budget => cfg'[k] = r.lcfg[k]
         /\ StagerFinalizeSave(r) =>
              /\ cfg'[k] \in {cfg[k], EmptyCfg[k]}
              /\ budget' = budget => cfg'[k] = cfg[k]
      ]_vars

\* The handshake has written COPIED, with no failure, over a record that
\* held a snoozed version: the file holds the version the handshake loaded.
C37_Witness ==
    /\ cfg.update_state = "copied" /\ cfg.snoozed_version = NewVersion
    /\ cfg.last_update_check = 0 /\ ~faulted /\ ~edited
    /\ \E r \in Live : r.pc = "st_launch" /\ r.lcfg.snoozed_version = NewVersion

\* Process r is inside _atomic_replace, after its mkstemp.
C38_InReplace(r) ==
    r.pc \in {"ar_copy", "ar_chmod", "ar_replace", "ar_unlink_ok", "ar_unlink_err"}

\* The rename of process r succeeded in this step: old_exe is the file that
\* was the temporary file, and no file has the temporary name.
C38_Renamed(r) ==
    /\ AtomicRename(r)
    /\ \E q \in BagToSet(procs') : q = [r EXCEPT !.pc = "ar_unlink_ok", !.tmp = "absent"]
    /\ CopiesIn([r EXCEPT !.pc = "ar_unlink_ok", !.tmp = "absent"], procs')
          > CopiesIn([r EXCEPT !.pc = "ar_unlink_ok", !.tmp = "absent"], procs)

\* C38 as stated: when _atomic_replace returns or raises, no file is left
\* under the temporary name it created: after a rename that succeeded
\* old_exe is that file, and after a failure of copy, chmod or rename the
\* file has been removed.
C38_TempFileGone ==
    /\ [](\A r \in Live : ~C38_InReplace(r) => r.tmp = "absent")
    /\ [][\A r \in Live :
            /\ C38_Renamed(r) => fs'[OldExe(r)] = r.tmp
            /\ (AtomicUnlink(r) /\ ~leftover) => ~leftover'
       ]_vars

\* C38 amended: when _atomic_replace returns or raises, no file is left
\* under the temporary name it created, unless the removal in the finally
\* itself failed (the OSError is ignored): after a rename that succeeded
\* old_exe is that file and nothing is left; after a failure of copy, chmod
\* or rename the file has been removed or its removal failed for a reason
\* from outside; a failure of mkstemp creates no file.
C38_TempFileGoneUnlessUnlinkFails ==
    /\ [](\A r \in Live : ~C38_InReplace(r) => r.tmp = "absent")
    /\ [][\A r \in Live :
            /\ C38_Renamed(r) => fs'[OldExe(r)] = r.tmp
            /\ AtomicUnlink(r) =>
                 /\ r.pc = "ar_unlink_ok" => leftover' = leftover
                 /\ budget' = budget => leftover' = leftover
                 /\ leftover' # leftover => (r.tmp # "absent" /\ budget' = budget - 1)
       ]_vars

\* A replace has returned with nothing having failed: old_exe is the file
\* that was its temporary file, and no file is left under the temporary name.
C38_Witness ==
    /\ ~leftover /\ ~faulted /\ ~edited
    /\ \E r \in Live :
         /\ r.pc = "st_save_copied" /\ r.tmp = "absent"
         /\ OldExe(r) = "inst" /\ fs["inst"] = "new"
====
